---- MODULE Spec2Model ----
(***************************************************************************)
(* Model of the OpenHands Discord bot's API access layer and renderer:     *)
(*   src/context7_client.py   Context7Client._request, _normalize_snippets *)
(*   src/openhands_client.py  OpenHandsClient.create_conversation,         *)
(*                            OpenHandsClient.get_conversation_status      *)
(*   src/main.py              _dedup_snippets, _safe_truncate, build_embed *)
(***************************************************************************)
EXTENDS Integers, Sequences, FiniteSets, TLC

VARIABLES
    req,        \* the logical request in flight: locals of the retry loop
    sess,       \* per client: the _session attribute and the sessions made
    calls,      \* number of logical requests started so far
    fpc,        \* position of the call of a function under study
    arg,        \* its argument
    ret,        \* its results so far, in order
    ask,        \* the /ask handler: its position, sources and outcome
    branch,     \* the _fetch coroutines that asyncio.gather runs
    oh,         \* the OpenHands configuration and the /openhands handlers
    mon         \* monitor_conversation: its loop and what it did so far

vars == <<req, sess, calls, fpc, arg, ret, ask, branch, oh, mon>>
retryVars == <<req, sess, calls>>
callVars == <<fpc, arg, ret>>
askVars == <<ask, branch>>

(***************************************************************************)
(* Bounds of the model.                                                    *)
(***************************************************************************)
MaxCalls == 2
MaxTextLen == 7
MaxDedupLen == 3
MaxSnippets == 7
MaxElems == 2
MaxFlowLen == 5
MaxAsks == 2
MaxCommands == 2
MaxChecks == 3

(***************************************************************************)
(* Program constants.                                                      *)
(***************************************************************************)
MAX_RETRIES == 3
FINGERPRINT_LEN == 200
MAX_FIELDS == 6
MAX_NAME_LEN == 256
max_embed_len == 5500
max_field_len == 1024

(***************************************************************************)
(* The upstream: statuses it may answer with, and the bodies it may send.  *)
(***************************************************************************)
Statuses == {200, 399, 400, 429, 500}
Bodies == {"body_a", "body_b"}
Responses == [status : Statuses, body : Bodies]

Ops == {"ctx7_request", "create_conversation", "get_conversation_status"}
Clients == {"ctx7", "openhands"}

ClientOf(op) == IF op = "ctx7_request" THEN "ctx7" ELSE "openhands"

(***************************************************************************)
(* Sessions.  sess[c].cur is the _session attribute (0 is None, otherwise  *)
(* the number of the session object), sess[c].closed the session objects   *)
(* that were closed, sess[c].made the number of session objects created.   *)
(***************************************************************************)
NoSession == [cur |-> 0, closed |-> {}, made |-> 0]

\* A session created on every call.
GetSession_Always(s) ==
    [s EXCEPT !.cur = s.made + 1, !.made = s.made + 1]

\* _get_session: create a session when there is none or it is closed.
GetSession(s) ==
    IF s.cur = 0 \/ s.cur \in s.closed
    THEN [s EXCEPT !.cur = s.made + 1, !.made = s.made + 1]
    ELSE s

\* close(): close the session when there is an open one.
CloseSession(s) ==
    IF s.cur # 0 /\ s.cur \notin s.closed
    THEN [s EXCEPT !.closed = s.closed \cup {s.cur}]
    ELSE s

(***************************************************************************)
(* The retry loop.  A request r holds the locals of one call:              *)
(*   pc         "idle" | "attempting" (suspended in session.get/post)      *)
(*              | "sleeping" (suspended in asyncio.sleep) | "done"         *)
(*   attempt    the loop variable of  for attempt in range(MAX_RETRIES)    *)
(*   session    the session object obtained before the loop                *)
(*   requests   HTTP requests issued so far                                *)
(*   responses  the responses received, in order                           *)
(*   waits      the arguments of asyncio.sleep so far, in order            *)
(*   outcome    "none" | "returned" | "http_error" | "transport_error"     *)
(*              | "rate_limit_exhausted"                                    *)
(*   result     the response body returned ("none" if none)                *)
(*   failures   exceptions raised by session.get / session.post            *)
(*   err        the error raised: its status (0 if it has none) and its    *)
(*              message: the response body ("body"), the reason phrase of  *)
(*              the status line ("reason") or a fixed text ("text")        *)
(***************************************************************************)
NoErr == [status |-> 0, message |-> "none", body |-> "none"]

IdleReq ==
    [op |-> "ctx7_request", pc |-> "idle", attempt |-> 0, session |-> 0,
     requests |-> 0, responses |-> <<>>, waits |-> <<>>,
     outcome |-> "none", result |-> "none", failures |-> 0, err |-> NoErr]

Backoff_Linear(attempt) == 2 * attempt

\* wait = 2 ** attempt
Backoff(attempt) == 2 ^ attempt

LoopHead_OffByOne(r, n) ==
    IF n <= MAX_RETRIES
    THEN [r EXCEPT !.attempt = n, !.pc = "attempting",
                   !.requests = r.requests + 1]
    ELSE [r EXCEPT !.pc = "done", !.outcome = "rate_limit_exhausted"]

\* The head of  for attempt in range(MAX_RETRIES):  with the loop variable
\* at n: either the next attempt is sent, or the loop is over and the
\* RuntimeError after it is raised.
LoopHead(r, n) ==
    IF n < MAX_RETRIES
    THEN [r EXCEPT !.attempt = n, !.pc = "attempting",
                   !.requests = r.requests + 1]
    ELSE [r EXCEPT !.pc = "done", !.outcome = "rate_limit_exhausted",
                   !.err = [status |-> 0, message |-> "text",
                            body |-> "none"]]

\* Entry of a logical request: the session is obtained once, then the loop
\* is entered.
StartRequest(op, sid) ==
    LoopHead([IdleReq EXCEPT !.op = op, !.session = sid], 0)

\* Context7Client._request after  resp = await session.get(...)
Ctx7OnResponse(r, resp) ==
    LET r1 == [r EXCEPT !.responses = Append(r.responses, resp)] IN
    IF resp.status = 429
    THEN [r1 EXCEPT !.pc = "sleeping",
                    !.waits = Append(r.waits, Backoff(r.attempt))]
    ELSE IF resp.status >= 400
    THEN \* resp.raise_for_status(): ClientResponseError(status, reason)
         [r1 EXCEPT !.pc = "done", !.outcome = "http_error",
                    !.err = [status |-> resp.status, message |-> "reason",
                             body |-> "none"]]
    ELSE [r1 EXCEPT !.pc = "done", !.outcome = "returned",
                    !.result = resp.body]

OpenHandsOnResponse_Above400(r, resp) ==
    LET r1 == [r EXCEPT !.responses = Append(r.responses, resp)] IN
    IF resp.status = 429
    THEN [r1 EXCEPT !.pc = "sleeping",
                    !.waits = Append(r.waits, Backoff(r.attempt))]
    ELSE IF resp.status > 400
    THEN [r1 EXCEPT !.pc = "done", !.outcome = "http_error",
                    !.err = [status |-> resp.status, message |-> "body",
                             body |-> resp.body]]
    ELSE [r1 EXCEPT !.pc = "done", !.outcome = "returned",
                    !.result = resp.body]

\* OpenHandsClient.create_conversation / get_conversation_status after
\* resp = await session.post(...)  /  session.get(...)
OpenHandsOnResponse(r, resp) ==
    LET r1 == [r EXCEPT !.responses = Append(r.responses, resp)] IN
    IF resp.status = 429
    THEN [r1 EXCEPT !.pc = "sleeping",
                    !.waits = Append(r.waits, Backoff(r.attempt))]
    ELSE IF resp.status >= 400
    THEN \* raise aiohttp.ClientResponseError(status=..., message=body)
         [r1 EXCEPT !.pc = "done", !.outcome = "http_error",
                    !.err = [status |-> resp.status, message |-> "body",
                             body |-> resp.body]]
    ELSE [r1 EXCEPT !.pc = "done", !.outcome = "returned",
                    !.result = resp.body]

\* A loop that raises at once on the last 429, without the wait.
OnResponse_NoFinalWait(r, resp) ==
    IF resp.status = 429 /\ r.attempt = MAX_RETRIES - 1
    THEN [r EXCEPT !.responses = Append(r.responses, resp),
                   !.pc = "done", !.outcome = "rate_limit_exhausted",
                   !.err = [status |-> 0, message |-> "text",
                            body |-> "none"]]
    ELSE IF r.op = "ctx7_request" THEN Ctx7OnResponse(r, resp)
    ELSE OpenHandsOnResponse(r, resp)

OnResponse(r, resp) ==
    IF r.op = "ctx7_request" THEN Ctx7OnResponse(r, resp)
    ELSE OpenHandsOnResponse(r, resp)

OnTransportFailure_Retried(r) ==
    [r EXCEPT !.pc = "sleeping", !.failures = r.failures + 1,
              !.waits = Append(r.waits, Backoff(r.attempt))]

\* session.get / session.post raises (connection refused, timeout): nothing
\* in _request catches it; the OpenHands operations log it and re-raise.
OnTransportFailure(r) ==
    [r EXCEPT !.pc = "done", !.outcome = "transport_error",
              !.failures = r.failures + 1]

\* A retry that does not count: the same attempt is made again.
OnWake_SameAttempt(r) == LoopHead([r EXCEPT !.pc = "attempting"], r.attempt)

\* asyncio.sleep(wait) returns; continue: the loop variable advances.
OnWake(r) == LoopHead([r EXCEPT !.pc = "attempting"], r.attempt + 1)

(***************************************************************************)
(* Actions of the retry specification: one logical request at a time.      *)
(***************************************************************************)
\* The /ask handler before its first invocation.
IdleAsk ==
    [pc |-> "idle", n |-> 0, lib_ids |-> <<>>, finished |-> <<>>,
     all_snippets |-> <<>>, outcome |-> "none", rendered |-> FALSE,
     fields |-> <<>>]

\* The module-level configuration of main.py and the state of the
\* /openhands and /openhands_status handlers:
\*   key          OPENHANDS_API_KEY ("" when not set)
\*   github_repo  GITHUB_REPO ("" when not set)
\*   client       whether openhands is an OpenHandsClient (not None)
\*   pc           "idle" | "awaiting" (in the call of the client) | "done"
\*   cmd          the command invoked last
\*   outcome      the reply: "none" | "not_configured" | "no_repository"
\*                | "result" (the embed) | "error" (the failure message)
\*   delivered    whether the send of that reply succeeded
\*   n            invocations so far
\* openhands = None;  if OPENHANDS_API_KEY: openhands = OpenHandsClient(...)
Configured(key, github_repo) ==
    [key |-> key, github_repo |-> github_repo, client |-> key # "",
     pc |-> "idle", cmd |-> "none", outcome |-> "none",
     delivered |-> FALSE, n |-> 0]

\* monitor_conversation before it is called:
\*   pc          "idle" | "lookup" (in get_conversation_status) |
\*               "waiting" (in asyncio.sleep(5)) | "exited"
\*   max_checks  the argument
\*   i           the loop variable of  for i in range(max_checks)
\*   lookups     what each lookup so far gave: "nonfinal", "final", "raised"
\*   waits       the seconds slept after lookups, in order
\*   exit        "none" | "final" | "error" | "max_checks"
\*   closes      calls of client.close()
IdleMonitor ==
    [pc |-> "idle", max_checks |-> 0, i |-> 0, lookups |-> <<>>,
     waits |-> <<>>, exit |-> "none", closes |-> 0]

NoRequests ==
    /\ mon = IdleMonitor
    /\ req = IdleReq
    /\ sess = [c \in Clients |-> NoSession]
    /\ calls = 0
    /\ ask = IdleAsk
    /\ branch = <<>>
    /\ oh = Configured("", "")

NoCall ==
    /\ fpc = "none"
    /\ arg = <<>>
    /\ ret = <<>>

InitRetry == NoRequests /\ NoCall

Call(op) ==
    /\ req.pc \in {"idle", "done"}
    /\ calls < MaxCalls
    /\ LET c == ClientOf(op)
           s == GetSession(sess[c]) IN
       /\ sess' = [sess EXCEPT ![c] = s]
       /\ req' = StartRequest(op, s.cur)
    /\ calls' = calls + 1
    /\ UNCHANGED <<callVars, askVars, oh, mon>>

Respond(resp) ==
    /\ req.pc = "attempting"
    /\ req' = OnResponse(req, resp)
    /\ UNCHANGED <<sess, calls, callVars, askVars, oh, mon>>

TransportFailure ==
    /\ req.pc = "attempting"
    /\ req' = OnTransportFailure(req)
    /\ UNCHANGED <<sess, calls, callVars, askVars, oh, mon>>

Wake ==
    /\ req.pc = "sleeping"
    /\ req' = OnWake(req)
    /\ UNCHANGED <<sess, calls, callVars, askVars, oh, mon>>

\* close() as the programs call it: after the requests, none in flight.
Close(c) ==
    /\ req.pc \in {"idle", "done"}
    /\ sess[c] # CloseSession(sess[c])
    /\ sess' = [sess EXCEPT ![c] = CloseSession(sess[c])]
    /\ UNCHANGED <<req, calls, callVars, askVars, oh, mon>>

NextRetry ==
    \/ \E op \in Ops : Call(op)
    \/ \E resp \in Responses : Respond(resp)
    \/ TransportFailure
    \/ Wake
    \/ \E c \in Clients : Close(c)

SpecRetry == InitRetry /\ [][NextRetry]_vars

\* Every HTTP attempt completes (session.get / session.post is answered or
\* raises) and every backoff wait completes (asyncio.sleep returns).
SpecRetryFair ==
    /\ SpecRetry
    /\ WF_vars((\E resp \in Responses : Respond(resp)) \/ TransportFailure)
    /\ WF_vars(Wake)

(***************************************************************************)
(* Python strings.  A string is kept run-length encoded: a sequence of     *)
(* runs [c |-> character, n |-> length >= 1] in which neighbouring runs    *)
(* hold different characters, so "aaab" is <<[c |-> "a", n |-> 3],         *)
(* [c |-> "b", n |-> 1]>>.  A character is named by itself, except the     *)
(* backtick, named BACKTICK, and the ellipsis U+2026, named ELLIPSIS_CHAR. *)
(* Every operator below computes on runs what the Python operation         *)
(* computes on characters.                                                 *)
(***************************************************************************)
BACKTICK == "backtick"
ELLIPSIS_CHAR == "ellipsis"

Run(c, n) == [c |-> c, n |-> n]

RECURSIVE SNormFrom(_, _, _)
SNormFrom(s, i, acc) ==
    IF i > Len(s) THEN acc
    ELSE IF s[i].n = 0 THEN SNormFrom(s, i + 1, acc)
    ELSE IF acc # <<>> /\ acc[Len(acc)].c = s[i].c
    THEN SNormFrom(s, i + 1,
                   [acc EXCEPT ![Len(acc)] = Run(s[i].c, acc[Len(acc)].n + s[i].n)])
    ELSE SNormFrom(s, i + 1, Append(acc, s[i]))

\* The encoding of a sequence of runs: empty runs dropped, equal neighbours
\* merged.
SNorm(s) == SNormFrom(s, 1, <<>>)

\* A string literal, given character by character.
Lit(chars) == SNorm([i \in 1..Len(chars) |-> Run(chars[i], 1)])

\* c * n
Rep(c, n) == SNorm(<<Run(c, n)>>)

\* s + t
SCat(s, t) == SNorm(s \o t)

RECURSIVE SLenFrom(_, _)
SLenFrom(s, i) == IF i > Len(s) THEN 0 ELSE s[i].n + SLenFrom(s, i + 1)

\* len(s)
SLen(s) == SLenFrom(s, 1)

\* s[:k] for k >= 0
RECURSIVE STake(_, _)
STake(s, k) ==
    IF k <= 0 \/ s = <<>> THEN <<>>
    ELSE IF Head(s).n >= k THEN <<Run(Head(s).c, k)>>
    ELSE <<Head(s)>> \o STake(Tail(s), k - Head(s).n)

RECURSIVE SCountFenceFrom(_, _)
SCountFenceFrom(s, i) ==
    IF i > Len(s) THEN 0
    ELSE (IF s[i].c = BACKTICK THEN s[i].n \div 3 ELSE 0) + SCountFenceFrom(s, i + 1)

\* s.count of the three-backtick fence: occurrences that do not overlap, found left to right; a
\* run of n backticks holds n div 3 of them.
SCountFence(s) == SCountFenceFrom(s, 1)

\* s.rfind of the fence: the 0-based index at which the last occurrence starts
\* (the last three backticks of the last run of at least three), -1 if none.
SRFindFence(s) ==
    LET fences == {i \in 1..Len(s) : s[i].c = BACKTICK /\ s[i].n >= 3} IN
    IF fences = {} THEN -1
    ELSE LET i == CHOOSE j \in fences : \A k \in fences : k <= j IN
         SLen(SubSeq(s, 1, i)) - 3

IsSpace(c) == c \in {" ", "\n"}

\* s.rstrip()
RECURSIVE SRStrip(_)
SRStrip(s) ==
    IF s # <<>> /\ IsSpace(s[Len(s)].c) THEN SRStrip(SubSeq(s, 1, Len(s) - 1))
    ELSE s

\* s.lstrip()
RECURSIVE SLStrip(_)
SLStrip(s) ==
    IF s # <<>> /\ IsSpace(Head(s).c) THEN SLStrip(Tail(s))
    ELSE s

\* s.strip()
SStrip(s) == SLStrip(SRStrip(s))

LowerChar(c) ==
    CASE c = "A" -> "a"
      [] c = "B" -> "b"
      [] c = "N" -> "n"
      [] c = "S" -> "s"
      [] OTHER -> c

\* s.lower()
SLower(s) == SNorm([i \in 1..Len(s) |-> Run(LowerChar(s[i].c), s[i].n)])

(***************************************************************************)
(* Python values as the JSON decoder and the code make them.  t is the     *)
(* type; a str holds its text s, a list its elements xs, a dict the        *)
(* function d from its keys to their values.                               *)
(***************************************************************************)
JNull == [t |-> "null"]
JBool(b) == [t |-> "bool", b |-> b]
JNum(n) == [t |-> "num", n |-> n]
JStr(s) == [t |-> "str", s |-> s]
JList(xs) == [t |-> "list", xs |-> xs]
JDict(d) == [t |-> "dict", d |-> d]

EmptyDict == JDict(<<>>)

\* A dict of the keys title, content and source; a key given as Absent is
\* left out.
Absent == [t |-> "absent"]
Snippet(title, content, source) ==
    LET all == [title |-> title, content |-> content, source |-> source] IN
    JDict([k \in {key \in {"title", "content", "source"} : all[key].t # "absent"}
             |-> all[k]])

\* key in d
HasKey(d, key) == key \in DOMAIN d.d

\* d.get(key, default)
Get(d, key, default) == IF HasKey(d, key) THEN d.d[key] ELSE default

\* d.get(key)
GetOrNone(d, key) == Get(d, key, JNull)

\* isinstance(x, str)
IsStr(x) == x.t = "str"

Digits == <<"0", "1", "2", "3", "4", "5", "6", "7", "8", "9">>

\* str(x), for the values the inputs hold in a place where the code takes
\* str(): a str, None, a bool, a one-digit number, an empty list or dict.
Str(x) ==
    CASE x.t = "str" -> x.s
      [] x.t = "null" -> Lit(<<"N", "o", "n", "e">>)
      [] x.t = "bool" -> IF x.b THEN Lit(<<"T", "r", "u", "e">>)
                         ELSE Lit(<<"F", "a", "l", "s", "e">>)
      [] x.t = "num" /\ x.n \in 0..9 -> Lit(<<Digits[x.n + 1]>>)
      [] x.t = "list" /\ x.xs = <<>> -> Lit(<<"[", "]">>)
      [] x.t = "dict" /\ DOMAIN x.d = {} -> Lit(<<"{", "}">>)

\* if not isinstance(x, str): x = str(x)
AsStr(x) == IF ~IsStr(x) THEN Str(x) ELSE x.s

\* bool(x)
Truthy(x) ==
    CASE x.t = "null" -> FALSE
      [] x.t = "bool" -> x.b
      [] x.t = "num" -> x.n # 0
      [] x.t = "str" -> x.s # <<>>
      [] x.t = "list" -> x.xs # <<>>
      [] x.t = "dict" -> DOMAIN x.d # {}

ELLIPSIS == Lit(<<ELLIPSIS_CHAR>>)

(***************************************************************************)
(* main.py: _dedup_snippets, _safe_truncate, build_embed                   *)
(***************************************************************************)
\* Duplicates removed from the list while it is iterated: the element after
\* a removed one is never looked at.
RECURSIVE DedupLoop_SkipAfterDrop(_, _, _, _)
DedupLoop_SkipAfterDrop(snippets, i, seen, unique) ==
    IF i > Len(snippets) THEN unique
    ELSE LET snip == snippets[i]
             content == Get(snip, "content", JStr(<<>>))
             skipped == IF i + 1 <= Len(snippets)
                        THEN Append(unique, snippets[i + 1]) ELSE unique IN
         IF ~IsStr(content)
         THEN DedupLoop_SkipAfterDrop(snippets, i + 2, seen, skipped)
         ELSE LET fingerprint == SLower(SStrip(STake(content.s, FINGERPRINT_LEN))) IN
              IF fingerprint \in seen
              THEN DedupLoop_SkipAfterDrop(snippets, i + 2, seen, skipped)
              ELSE DedupLoop_SkipAfterDrop(snippets, i + 1, seen \cup {fingerprint},
                                           Append(unique, snip))

\* The fingerprint taken without lower().
RECURSIVE DedupLoop_NoLower(_, _, _, _)
DedupLoop_NoLower(snippets, i, seen, unique) ==
    IF i > Len(snippets) THEN unique
    ELSE LET snip == snippets[i]
             content == Get(snip, "content", JStr(<<>>)) IN
         IF ~IsStr(content) THEN DedupLoop_NoLower(snippets, i + 1, seen, unique)
         ELSE LET fingerprint == SStrip(STake(content.s, FINGERPRINT_LEN)) IN
              IF fingerprint \in seen
              THEN DedupLoop_NoLower(snippets, i + 1, seen, unique)
              ELSE DedupLoop_NoLower(snippets, i + 1, seen \cup {fingerprint},
                                     Append(unique, snip))

RECURSIVE DedupLoop(_, _, _, _)
DedupLoop(snippets, i, seen, unique) ==
    IF i > Len(snippets) THEN unique
    ELSE LET snip == snippets[i]
             content == Get(snip, "content", JStr(<<>>)) IN
         IF ~IsStr(content) THEN DedupLoop(snippets, i + 1, seen, unique)
         ELSE LET fingerprint == SLower(SStrip(STake(content.s, FINGERPRINT_LEN))) IN
              IF fingerprint \in seen
              THEN DedupLoop(snippets, i + 1, seen, unique)
              ELSE DedupLoop(snippets, i + 1, seen \cup {fingerprint},
                             Append(unique, snip))

dedup_snippets(snippets) == DedupLoop(snippets, 1, {}, <<>>)

Max(a, b) == IF a >= b THEN a ELSE b

\* Truncation that does not look at the fences.
safe_truncate_NoFenceCut(text, limit) ==
    IF SLen(Str(text)) <= limit THEN Str(text)
    ELSE SCat(STake(Str(text), Max(0, limit - 1)), ELLIPSIS)

safe_truncate(text, limit) ==
    LET txt == AsStr(text) IN
    IF SLen(txt) <= limit THEN txt
    ELSE LET truncated == STake(txt, Max(0, limit - 1))
             fence_count == SCountFence(truncated)
             last_open == SRFindFence(truncated)
             cut == IF fence_count % 2 # 0 /\ last_open # -1
                    THEN SRStrip(STake(truncated, last_open))
                    ELSE truncated
         IN SCat(cut, ELLIPSIS)

SourceLink(source) ==
    IF source # <<>>
    THEN SCat(SCat(Lit(<<"\n", "[", "S", "o", "u", "r", "c", "e", "]", "(">>),
                   source), Lit(<<")">>))
    ELSE <<>>

\* The loop without the check of the total length.
RECURSIVE EmbedLoop_NoBudget(_, _, _, _)
EmbedLoop_NoBudget(deduped, i, total_len, fields) ==
    IF i > Len(deduped) THEN fields
    ELSE LET snip == deduped[i]
             title == AsStr(Get(snip, "title", JStr(Lit(<<"U", "n", "t", "i", "t", "l", "e", "d">>))))
             content == AsStr(Get(snip, "content", JStr(<<>>)))
             source == AsStr(Get(snip, "source", JStr(<<>>)))
             source_link == SourceLink(source)
             available == max_field_len - SLen(source_link) - 1
             field_text == SCat(safe_truncate(JStr(content), available), source_link)
         IN
         IF SStrip(field_text) = <<>>
         THEN EmbedLoop_NoBudget(deduped, i + 1, total_len, fields)
         ELSE EmbedLoop_NoBudget(deduped, i + 1, total_len + SLen(field_text),
                                 Append(fields, [name |-> STake(title, MAX_NAME_LEN),
                                                 value |-> field_text]))

\* A value over the budget skipped, and the loop continued.
RECURSIVE EmbedLoop_SkipAndContinue(_, _, _, _)
EmbedLoop_SkipAndContinue(deduped, i, total_len, fields) ==
    IF i > Len(deduped) THEN fields
    ELSE LET snip == deduped[i]
             title == AsStr(Get(snip, "title", JStr(Lit(<<"U", "n", "t", "i", "t", "l", "e", "d">>))))
             content == AsStr(Get(snip, "content", JStr(<<>>)))
             source == AsStr(Get(snip, "source", JStr(<<>>)))
             source_link == SourceLink(source)
             available == max_field_len - SLen(source_link) - 1
             field_text == SCat(safe_truncate(JStr(content), available), source_link)
         IN
         IF SStrip(field_text) = <<>>
         THEN EmbedLoop_SkipAndContinue(deduped, i + 1, total_len, fields)
         ELSE IF total_len + SLen(field_text) > max_embed_len
         THEN EmbedLoop_SkipAndContinue(deduped, i + 1, total_len, fields)
         ELSE EmbedLoop_SkipAndContinue(deduped, i + 1, total_len + SLen(field_text),
                        Append(fields, [name |-> STake(title, MAX_NAME_LEN),
                                        value |-> field_text]))

RECURSIVE EmbedLoop(_, _, _, _)
EmbedLoop(deduped, i, total_len, fields) ==
    IF i > Len(deduped) THEN fields
    ELSE LET snip == deduped[i]
             title == AsStr(Get(snip, "title", JStr(Lit(<<"U", "n", "t", "i", "t", "l", "e", "d">>))))
             content == AsStr(Get(snip, "content", JStr(<<>>)))
             source == AsStr(Get(snip, "source", JStr(<<>>)))
             source_link == SourceLink(source)
             available == max_field_len - SLen(source_link) - 1
             field_text == SCat(safe_truncate(JStr(content), available), source_link)
         IN
         IF SStrip(field_text) = <<>>
         THEN EmbedLoop(deduped, i + 1, total_len, fields)
         ELSE IF total_len + SLen(field_text) > max_embed_len
         THEN fields
         ELSE EmbedLoop(deduped, i + 1, total_len + SLen(field_text),
                        Append(fields, [name |-> STake(title, MAX_NAME_LEN),
                                        value |-> field_text]))

\* The fields of the embed that build_embed returns.
build_embed(snippets) ==
    LET deduped == dedup_snippets(snippets) IN
    EmbedLoop(SubSeq(deduped, 1, IF Len(deduped) < MAX_FIELDS THEN Len(deduped) ELSE MAX_FIELDS),
              1, 0, <<>>)

(***************************************************************************)
(* _safe_truncate as a call: every text of up to MaxTextLen characters     *)
(* over TruncChars, and None and an int, against every limit around it.    *)
(***************************************************************************)
TruncChars == {"a", " ", BACKTICK}

TruncLimits == (0 - 2)..(MaxTextLen + 1)

InitTruncate ==
    /\ NoRequests
    /\ fpc = "ready"
    /\ ret = <<>>
    /\ \E limit \in TruncLimits :
         \/ \E n \in 0..MaxTextLen : \E t \in [1..n -> TruncChars] :
               arg = [text |-> JStr(Lit(t)), limit |-> limit]
         \/ \E text \in {JNull, JNum(7)} :
               arg = [text |-> text, limit |-> limit]

Truncate ==
    /\ fpc = "ready"
    /\ fpc' = "done"
    /\ ret' = <<safe_truncate(arg.text, arg.limit)>>
    /\ UNCHANGED <<arg, retryVars, askVars, oh, mon>>

NextTruncate == Truncate

SpecTruncate == InitTruncate /\ [][NextTruncate]_vars

(***************************************************************************)
(* _dedup_snippets as a call, then called again on its own result.  The    *)
(* snippet at position j has a title of j characters, so that two snippets *)
(* of one input are never equal, and a content from DedupContents.         *)
(***************************************************************************)
DedupContents ==
    { JStr(Rep("a", 3)),
      JStr(Rep("A", 3)),
      JStr(Lit(<<" ", "a", "a", "a", "\n">>)),
      JStr(SCat(Rep("a", FINGERPRINT_LEN), Rep("b", 1))),
      JStr(SCat(Rep("a", FINGERPRINT_LEN), Rep("B", 5))),
      JStr(SCat(Rep("a", FINGERPRINT_LEN - 1), Lit(<<" ", "b">>))),
      JStr(SCat(Rep(" ", FINGERPRINT_LEN), Rep("a", 3))),
      JStr(<<>>),
      JStr(Rep(" ", 2)),
      Absent,
      JNull,
      JNum(7) }

DedupSnippet(j, content) == Snippet(JStr(Rep("t", j)), content, Absent)

InitDedup ==
    /\ NoRequests
    /\ fpc = "ready"
    /\ ret = <<>>
    /\ \E n \in 0..MaxDedupLen : \E cs \in [1..n -> DedupContents] :
          arg = [j \in 1..n |-> DedupSnippet(j, cs[j])]

Dedup ==
    /\ fpc = "ready"
    /\ fpc' = "once"
    /\ ret' = <<dedup_snippets(arg)>>
    /\ UNCHANGED <<arg, retryVars, askVars, oh, mon>>

DedupAgain ==
    /\ fpc = "once"
    /\ fpc' = "twice"
    /\ ret' = Append(ret, dedup_snippets(ret[1]))
    /\ UNCHANGED <<arg, retryVars, askVars, oh, mon>>

NextDedup == Dedup \/ DedupAgain

SpecDedup == InitDedup /\ [][NextDedup]_vars

(***************************************************************************)
(* build_embed as a call.  Inputs are of two kinds: sequences of up to     *)
(* MaxSnippets snippets of four shapes (the texts of the snippet at        *)
(* position j start with j characters "a", so that positions differ in     *)
(* their fingerprints unless the shape is made to collide), and single     *)
(* snippets over every combination of FieldTitles, FieldContents and       *)
(* FieldSources; and sequences of up to MaxFlowLen snippets of FlowShapes, *)
(* where a "huge" snippet has a source of 2000 characters and so a value   *)
(* of 2012.                                                                *)
(***************************************************************************)
Shapes == {"long", "medium", "blank", "dup"}
FlowShapes == {"huge", "short", "blank"}

ShapedSnippet(j, shape) ==
    CASE shape = "long" ->
           Snippet(JStr(Rep("t", j)),
                   JStr(SCat(SCat(Rep("a", j), Rep(" ", 1)), Rep("b", 2000))),
                   Absent)
      [] shape = "medium" ->
           Snippet(JStr(Rep("t", j)),
                   JStr(SCat(SCat(Rep("a", j), Rep(" ", 1)), Rep("b", 300))),
                   JStr(Rep("s", 20)))
      [] shape = "blank" ->
           Snippet(JStr(Rep("t", j)),
                   JStr(Rep(" ", 3)),
                   JStr(<<>>))
      [] shape = "dup" ->
           Snippet(JStr(Rep("t", j)),
                   JStr(SCat(SCat(Rep("A", 1), Rep(" ", 1)), Rep("B", 300))),
                   Absent)
      [] shape = "huge" ->
           Snippet(JStr(Rep("t", j)),
                   JStr(SCat(Rep("a", j), Rep("h", 1))),
                   JStr(Rep("s", 2000)))
      [] shape = "short" ->
           Snippet(JStr(Rep("t", j)),
                   JStr(SCat(Rep("a", j), Rep("c", 1))),
                   Absent)

FieldTitles ==
    { Absent, JNull, JStr(Rep("t", 3)),
      JStr(Rep("t", MAX_NAME_LEN)), JStr(Rep("t", MAX_NAME_LEN + 1)) }

FieldContents ==
    { JStr(<<>>), JStr(Rep("a", 3)), JStr(Rep("a", max_field_len + 6)),
      JStr(SCat(SCat(Rep("a", 1000), Rep(BACKTICK, 3)), Rep("b", 40))),
      JStr(SCat(SCat(Rep(BACKTICK, 3), Rep("b", 3)), Rep(BACKTICK, 3))),
      JStr(SCat(Rep(BACKTICK, 3), Rep("b", 3))) }

FieldSources ==
    { Absent, JNull, JNum(7), JStr(<<>>), JStr(Rep("s", 5)),
      JStr(Rep("s", 1011)), JStr(Rep("s", 1012)),
      JStr(Rep("s", 1013)), JStr(Rep("s", 1100)) }

InitRender ==
    /\ NoRequests
    /\ fpc = "ready"
    /\ ret = <<>>
    /\ \/ \E n \in 0..MaxSnippets : \E sh \in [1..n -> Shapes] :
            arg = [j \in 1..n |-> ShapedSnippet(j, sh[j])]
       \/ \E t \in FieldTitles, c \in FieldContents, s \in FieldSources :
            arg = <<Snippet(t, c, s)>>
       \/ \E n \in 1..MaxFlowLen : \E sh \in [1..n -> FlowShapes] :
            arg = [j \in 1..n |-> ShapedSnippet(j, sh[j])]

Render ==
    /\ fpc = "ready"
    /\ fpc' = "done"
    /\ ret' = <<build_embed(arg)>>
    /\ UNCHANGED <<arg, retryVars, askVars, oh, mon>>

NextRender == Render

SpecRender == InitRender /\ [][NextRender]_vars

(***************************************************************************)
(* context7_client.py: _normalize_snippets, _convert_code_snippet          *)
(* A call either returns a value or raises: Return(v) or Raise(exception). *)
(***************************************************************************)
Return(v) == [ok |-> TRUE, v |-> v]
Raise(exc) == [ok |-> FALSE, exc |-> exc]

\* The text of a dict key.
KeyText(key) ==
    CASE key = "codeTitle" -> Lit(<<"c", "o", "d", "e", "T", "i", "t", "l", "e">>)

\* needle in hay, for two strs: the runs of the needle lie in consecutive
\* runs of hay, the inner ones whole, the outer ones at least as long.
Contains(hay, needle) ==
    LET k == Len(needle) IN
    \/ k = 0
    \/ \E i \in 1..(Len(hay) - k + 1) :
          \A j \in 1..k :
              /\ hay[i + j - 1].c = needle[j].c
              /\ IF j = 1 \/ j = k
                 THEN hay[i + j - 1].n >= needle[j].n
                 ELSE hay[i + j - 1].n = needle[j].n

\* key in x: a key of a dict, a substring of a str, an element of a list;
\* TypeError for a value that is no container.
In(key, x) ==
    CASE x.t = "dict" -> Return(HasKey(x, key))
      [] x.t = "str" -> Return(Contains(x.s, KeyText(key)))
      [] x.t = "list" ->
           Return(\E i \in 1..Len(x.xs) :
                      IsStr(x.xs[i]) /\ x.xs[i].s = KeyText(key))
      [] OTHER -> Raise("TypeError")

\* f"```{lang}\n{code}\n```"
Fence(lang, code) ==
    SCat(SCat(SCat(SCat(Rep(BACKTICK, 3), Str(lang)), Lit(<<"\n">>)),
              SCat(Str(code), Lit(<<"\n">>))), Rep(BACKTICK, 3))

\* for block in code_list: ... parts.append(...)
RECURSIVE CodeListLoop(_, _, _)
CodeListLoop(blocks, i, parts) ==
    IF i > Len(blocks) THEN Return(parts)
    ELSE LET block == blocks[i] IN
         IF block.t # "dict" THEN Raise("AttributeError")
         ELSE LET lang == Get(block, "language", JStr(<<>>))
                  code == Get(block, "code", JStr(<<>>)) IN
              IF Truthy(code)
              THEN CodeListLoop(blocks, i + 1, Append(parts, JStr(Fence(lang, code))))
              ELSE CodeListLoop(blocks, i + 1, parts)

\* "\n\n".join(parts), for parts that are all strs
RECURSIVE JoinBlank(_, _)
JoinBlank(parts, i) ==
    IF i > Len(parts) THEN <<>>
    ELSE IF i = Len(parts) THEN parts[i].s
    ELSE SCat(SCat(parts[i].s, Lit(<<"\n", "\n">>)), JoinBlank(parts, i + 1))

NO_CONTENT == Lit(<<"(", "n", "o", " ", "c", "o", "n", "t", "e", "n", "t", ")">>)
UNTITLED == Lit(<<"U", "n", "t", "i", "t", "l", "e", "d">>)

convert_code_snippet(s) ==
    IF s.t # "dict" THEN Raise("AttributeError")
    ELSE LET title == IF Truthy(GetOrNone(s, "codeTitle")) THEN GetOrNone(s, "codeTitle")
                      ELSE IF Truthy(GetOrNone(s, "pageTitle")) THEN GetOrNone(s, "pageTitle")
                      ELSE JStr(UNTITLED)
             source == Get(s, "codeId", JStr(<<>>))
             desc == Get(s, "codeDescription", JStr(<<>>))
             parts0 == IF Truthy(desc) THEN <<desc>> ELSE <<>>
             code_list == IF Truthy(GetOrNone(s, "codeList")) THEN GetOrNone(s, "codeList")
                          ELSE JList(<<>>)
             looped == CASE code_list.t = "list" -> CodeListLoop(code_list.xs, 1, parts0)
                         \* the characters of a str, the keys of a dict: no .get
                         [] code_list.t \in {"str", "dict"} -> Raise("AttributeError")
                         \* a number, True: not iterable
                         [] OTHER -> Raise("TypeError")
         IN
         IF ~looped.ok THEN looped
         ELSE LET parts == looped.v IN
              IF parts = <<>>
              THEN Return(Snippet(title, JStr(NO_CONTENT), source))
              ELSE IF \E i \in 1..Len(parts) : ~IsStr(parts[i])
              THEN Raise("TypeError")
              ELSE Return(Snippet(title, JStr(JoinBlank(parts, 1)), source))

\* [_convert_code_snippet(s) for s in xs]
RECURSIVE ConvertAll(_, _, _)
ConvertAll(xs, i, out) ==
    IF i > Len(xs) THEN Return(JList(out))
    ELSE LET r == convert_code_snippet(xs[i]) IN
         IF ~r.ok THEN r ELSE ConvertAll(xs, i + 1, Append(out, r.v))

ListKeys == <<"results", "snippets", "context", "data", "items">>

\* for key in ("results", ...): if key in data and isinstance(data[key], list)
RECURSIVE FirstListKey(_, _)
FirstListKey(data, i) ==
    IF i > Len(ListKeys) THEN 0
    ELSE IF HasKey(data, ListKeys[i]) /\ data.d[ListKeys[i]].t = "list" THEN i
    ELSE FirstListKey(data, i + 1)

normalize_snippets(data) ==
    IF data.t = "list"
    THEN IF data.xs = <<>> THEN Return(data)
         ELSE LET has == In("codeTitle", data.xs[1]) IN
              IF ~has.ok THEN has
              ELSE IF has.v THEN ConvertAll(data.xs, 1, <<>>)
              ELSE Return(data)
    ELSE IF data.t # "dict" THEN Return(JList(<<>>))
    ELSE IF HasKey(data, "codeSnippets") /\ data.d["codeSnippets"].t = "list"
    THEN ConvertAll(data.d["codeSnippets"].xs, 1, <<>>)
    ELSE IF FirstListKey(data, 1) # 0
    THEN Return(data.d[ListKeys[FirstListKey(data, 1)]])
    ELSE IF HasKey(data, "content") \/ HasKey(data, "title")
    THEN Return(JList(<<data>>))
    ELSE Return(JList(<<>>))

(***************************************************************************)
(* _normalize_snippets as a call.  The payloads: scalars, lists of up to   *)
(* MaxElems elements, dicts holding such a list or a scalar under one of   *)
(* PayloadKeys, alone or next to a title.                                  *)
(***************************************************************************)
SETUP == Lit(<<"S", "e", "t", "u", "p">>)
RUN_THIS == Lit(<<"R", "u", "n", " ", "t", "h", "i", "s">>)
BASH == Lit(<<"b", "a", "s", "h">>)
PIP_INSTALL_X == Lit(<<"p", "i", "p", " ", "i", "n", "s", "t", "a", "l", "l", " ", "x">>)

Elems ==
    << JDict([codeTitle |-> JStr(SETUP), codeDescription |-> JStr(RUN_THIS),
              codeList |-> JList(<<JDict([language |-> JStr(BASH),
                                          code |-> JStr(PIP_INSTALL_X)])>>)]),
       JDict([pageTitle |-> JStr(Rep("p", 2)), codeId |-> JStr(Rep("i", 2)),
              codeList |-> JList(<<>>)]),
       EmptyDict,
       JDict([codeTitle |-> JStr(<<>>), pageTitle |-> JStr(<<>>), codeId |-> JNull,
              codeDescription |-> JNull, codeList |-> JNull]),
       JDict([codeTitle |-> JStr(Rep("t", 1)),
              codeList |-> JList(<<JDict([language |-> JNull, code |-> JNum(7)]),
                                   JDict([code |-> JStr(<<>>)]),
                                   JDict([code |-> JStr(Rep("x", 2))])>>)]),
       JDict([title |-> JStr(Rep("t", 2)), content |-> JStr(Rep("c", 2)),
              source |-> JStr(Rep("s", 2))]),
       JNum(1),
       JNull,
       JStr(Rep("a", 3)),
       JStr(SCat(Rep("a", 1), KeyText("codeTitle"))),
       JList(<<JStr(KeyText("codeTitle"))>>),
       JDict([codeTitle |-> JStr(Rep("t", 1)), codeList |-> JList(<<JNum(5)>>)]),
       JDict([codeTitle |-> JStr(Rep("t", 1)), codeList |-> JNum(5)]),
       JDict([codeTitle |-> JStr(Rep("t", 1)), codeList |-> JStr(Rep("x", 2))]),
       JDict([codeTitle |-> JNum(3), codeDescription |-> JNum(5)]) >>

Scalars == <<JNull, JNum(0), JBool(TRUE), JStr(Rep("a", 3)), JStr(<<>>)>>

PayloadKeys ==
    {"codeSnippets", "results", "snippets", "context", "data", "items",
     "content", "title", "foo"}

InitNormalize ==
    /\ NoRequests
    /\ fpc = "ready"
    /\ ret = <<>>
    /\ \/ \E i \in 1..Len(Scalars) : arg = Scalars[i]
       \/ \E n \in 0..MaxElems : \E e \in [1..n -> 1..Len(Elems)] :
            LET list == JList([j \in 1..n |-> Elems[e[j]]]) IN
            \/ arg = list
            \/ \E key \in PayloadKeys : arg = JDict([k \in {key} |-> list])
            \/ \E key \in PayloadKeys :
                 arg = JDict([k \in {key, "codeSnippets"} |->
                                 IF k = key THEN list ELSE JNum(5)])
       \/ \E i \in 1..Len(Scalars) : \E key \in PayloadKeys :
            arg = JDict([k \in {key} |-> Scalars[i]])
       \/ arg = EmptyDict

Normalize ==
    /\ fpc = "ready"
    /\ fpc' = "done"
    /\ ret' = <<normalize_snippets(arg)>>
    /\ UNCHANGED <<arg, retryVars, askVars, oh, mon>>

NextNormalize == Normalize

SpecNormalize == InitNormalize /\ [][NextNormalize]_vars

(***************************************************************************)
(* _convert_code_snippet as a call: one record of the upstream, each of    *)
(* its fields left out, null, empty or set.                                *)
(***************************************************************************)
CodeKeys == {"codeTitle", "pageTitle", "codeId", "codeDescription", "codeList"}

\* A dict of the keys of CodeKeys; a key given as Absent is left out.
CodeRecord(all) ==
    JDict([k \in {key \in CodeKeys : all[key].t # "absent"} |-> all[k]])

BASH_BLOCK == JDict([language |-> JStr(BASH), code |-> JStr(PIP_INSTALL_X)])
PLAIN_BLOCK == JDict([code |-> JStr(Rep("x", 2))])

CodeTitles == {Absent, JNull, JStr(<<>>), JStr(SETUP)}
PageTitles == {Absent, JStr(<<>>), JStr(Rep("p", 2))}
CodeIds == {Absent, JNull, JStr(<<>>), JStr(Rep("i", 2))}
Descriptions == {Absent, JStr(<<>>), JStr(RUN_THIS)}
CodeLists ==
    { Absent, JNull, JList(<<>>), JList(<<BASH_BLOCK>>),
      JList(<<BASH_BLOCK, PLAIN_BLOCK>>), JList(<<PLAIN_BLOCK, BASH_BLOCK>>) }

InitConvert ==
    /\ NoRequests
    /\ fpc = "ready"
    /\ ret = <<>>
    /\ \E t \in CodeTitles, p \in PageTitles, i \in CodeIds,
          d \in Descriptions, l \in CodeLists :
          arg = CodeRecord([codeTitle |-> t, pageTitle |-> p, codeId |-> i,
                            codeDescription |-> d, codeList |-> l])

Convert ==
    /\ fpc = "ready"
    /\ fpc' = "done"
    /\ ret' = <<convert_code_snippet(arg)>>
    /\ UNCHANGED <<arg, retryVars, askVars, oh, mon>>

NextConvert == Convert

SpecConvert == InitConvert /\ [][NextConvert]_vars

(***************************************************************************)
(* main.py: ask_command.  The handler picks the sources, runs one _fetch   *)
(* per source with asyncio.gather, flattens the results and replies.       *)
(* A branch b is one _fetch coroutine:                                     *)
(*   lib_id    its source identifier                                       *)
(*   pc        "new" (task created, not yet run) | "running" | "done"      *)
(*   r         the locals of its Context7Client._request                   *)
(*   snippets  the list it returned                                        *)
(*   failed    whether it returned [] from its except clause               *)
(* ask.finished holds the branches in the order they completed.            *)
(***************************************************************************)
WEBSITES_ALL_HANDS_DEV ==
    Lit(<<"/", "w", "e", "b", "s", "i", "t", "e", "s", "/", "a", "l", "l", "-",
          "h", "a", "n", "d", "s", "_", "d", "e", "v">>)
OPENHANDS_OPENHANDS ==
    Lit(<<"/", "o", "p", "e", "n", "h", "a", "n", "d", "s", "/",
          "o", "p", "e", "n", "h", "a", "n", "d", "s">>)

DEFAULT_LIBRARY == WEBSITES_ALL_HANDS_DEV
ALL_LIBRARY_IDS == <<WEBSITES_ALL_HANDS_DEV, OPENHANDS_OPENHANDS>>

\* The source option of /ask: not given, or one of LIBRARY_CHOICES.
SourceChoices == {"none", "official", "github", "all"}

\* chosen = source.value if source else DEFAULT_LIBRARY
\* lib_ids = ALL_LIBRARY_IDS if chosen == "__all__" else [chosen]
LibIds(source) ==
    CASE source = "all" -> ALL_LIBRARY_IDS
      [] source = "github" -> <<OPENHANDS_OPENHANDS>>
      [] OTHER -> <<DEFAULT_LIBRARY>>

\* Tagging that passes over the elements it cannot tag.
RECURSIVE TagLoop_SkipNonDict(_, _, _, _)
TagLoop_SkipNonDict(xs, i, lib_id, out) ==
    IF i > Len(xs) THEN Return(out)
    ELSE IF xs[i].t # "dict" THEN TagLoop_SkipNonDict(xs, i + 1, lib_id, out)
    ELSE TagLoop_SkipNonDict(xs, i + 1, lib_id,
                 Append(out, JDict([k \in DOMAIN xs[i].d \cup {"_source_lib"} |->
                                       IF k = "_source_lib" THEN JStr(lib_id)
                                       ELSE xs[i].d[k]])))

\* for s in snippets: s["_source_lib"] = lib_id
\* Item assignment raises TypeError on an element that is no dict.
RECURSIVE TagLoop(_, _, _, _)
TagLoop(xs, i, lib_id, out) ==
    IF i > Len(xs) THEN Return(out)
    ELSE IF xs[i].t # "dict" THEN Raise("TypeError")
    ELSE TagLoop(xs, i + 1, lib_id,
                 Append(out, JDict([k \in DOMAIN xs[i].d \cup {"_source_lib"} |->
                                       IF k = "_source_lib" THEN JStr(lib_id)
                                       ELSE xs[i].d[k]])))

\* What _fetch returns once get_context has returned got or raised it: the
\* tagged list, [] for a value that is no list, [] from the except clause.
FetchResult(lib_id, got) ==
    IF ~got.ok THEN <<>>
    ELSE IF got.v.t # "list" THEN <<>>
    ELSE LET tagged == TagLoop(got.v.xs, 1, lib_id, <<>>) IN
         IF tagged.ok THEN tagged.v ELSE <<>>

FetchFailed(lib_id, got) ==
    \/ ~got.ok
    \/ got.v.t = "list" /\ ~TagLoop(got.v.xs, 1, lib_id, <<>>).ok

NewBranch(lib_id) ==
    [lib_id |-> lib_id, pc |-> "new", r |-> IdleReq, snippets |-> <<>>,
     failed |-> FALSE]

\* The exception leaves _fetch: the task ends without a result.
AfterRaise_Uncaught(b, r) ==
    [b EXCEPT !.r = r, !.pc = "raised", !.failed = TRUE]

\* The branch after its _request, at r, raised: the except clause of
\* _fetch logs the exception and _fetch returns [].
AfterRaise(b, r) ==
    [b EXCEPT !.r = r, !.pc = "done", !.snippets = <<>>, !.failed = TRUE]

\* The branch after its _request returned the response: get_context
\* (resp.json(), _normalize_snippets) and the rest of _fetch.
AfterReturn(b, r) ==
    LET got == normalize_snippets(r.result) IN
    [b EXCEPT !.r = r, !.pc = "done",
              !.snippets = FetchResult(b.lib_id, got),
              !.failed = FetchFailed(b.lib_id, got)]

\* The awaiting task resumed by the first task that completes.
GatherReturns_FirstCompleted(branches) ==
    \E i \in DOMAIN branches : branches[i].pc \in {"done", "raised"}

\* await asyncio.gather(..., return_exceptions=False) resumes the awaiting
\* task when every task has returned, or as soon as one task has raised
\* (the exception is propagated; the other tasks keep running).
GatherReturns(branches) ==
    \/ \A i \in DOMAIN branches : branches[i].pc = "done"
    \/ \E i \in DOMAIN branches : branches[i].pc = "raised"

\* The results taken as the tasks complete.
GatherResults_AsCompleted(branches, finished) ==
    [k \in 1..Len(finished) |-> branches[finished[k]].snippets]

\* results = await asyncio.gather(...): the results of the tasks in the
\* order of the awaitables passed, whatever the order of completion.
GatherResults(branches, finished) ==
    [i \in 1..Len(branches) |-> branches[i].snippets]

\* all_snippets = [s for batch in results if isinstance(batch, list) for s in batch]
RECURSIVE Flatten(_, _)
Flatten(results, i) ==
    IF i > Len(results) THEN <<>>
    ELSE results[i] \o Flatten(results, i + 1)

\* The handler without  if not all_snippets: ... return
AfterGather_NoEmptyCheck(a, all_snippets, sends) ==
    [a EXCEPT !.pc = "done",
              !.all_snippets = all_snippets,
              !.rendered = TRUE,
              !.fields = build_embed(all_snippets),
              !.outcome = CASE sends = "ok" -> "embed"
                            [] sends = "embed_send_fails" -> "format_error"
                            [] OTHER -> "error"]

\* The handler a after gather: the reply "No documentation found" and
\* return (a send that raises is logged), or build_embed and the send of
\* the embed; when that raises, the send of the formatting-error reply;
\* when that raises too, the outer except clause.
AfterGather(a, all_snippets, sends) ==
    IF Len(all_snippets) = 0
    THEN [a EXCEPT !.pc = "done", !.outcome = "no_results"]
    ELSE [a EXCEPT !.pc = "done",
                   !.all_snippets = all_snippets,
                   !.rendered = TRUE,
                   !.fields = build_embed(all_snippets),
                   !.outcome = CASE sends = "ok" -> "embed"
                                 [] sends = "embed_send_fails" -> "format_error"
                                 [] OTHER -> "error"]

\* What the upstream may answer to GET /context: 429, 500, or 200 with one
\* of FanPayloads as its JSON body.
FanPayloads ==
    << JList(<<Elems[1]>>),
       JList(<<Snippet(JStr(Rep("t", 1)), JStr(Rep("c", 1)), Absent),
               Snippet(JStr(Rep("t", 2)), JStr(Rep("d", 2)), JStr(Rep("s", 2)))>>),
       JDict([foo |-> JNum(123)]),
       JList(<<>>),
       JList(<<JNum(5)>>),
       JDict([results |-> JList(<<Snippet(JStr(Rep("t", 1)), JStr(Rep("c", 1)), Absent),
                                  JNum(5)>>)]),
       JDict([codeSnippets |-> JList(<<JNum(1)>>)]),
       JList(<<Snippet(JStr(Rep("u", 1)), JStr(SCat(Rep("c", 1), Rep(" ", 1))),
                       Absent)>>) >>

FanResponse(status, i) ==
    [status |-> status, body |-> IF status = 200 THEN FanPayloads[i] ELSE JNull]

\* Outcomes of interaction.followup.send: every send succeeds, the send of
\* the embed raises, every send raises.
Sends == {"ok", "embed_send_fails", "all_sends_fail"}

InitAsk == NoRequests /\ NoCall

\* /ask is invoked: up to  asyncio.gather(*[_fetch(lib) for lib in lib_ids])
Ask(source) ==
    /\ ask.pc \in {"idle", "done"}
    /\ ask.n < MaxAsks
    /\ ask' = [IdleAsk EXCEPT !.pc = "gathering", !.n = ask.n + 1,
                              !.lib_ids = LibIds(source)]
    /\ branch' = [i \in 1..Len(LibIds(source)) |-> NewBranch(LibIds(source)[i])]
    /\ UNCHANGED <<retryVars, callVars, oh, mon>>

\* The event loop runs the tasks in the order gather created them: each
\* runs _fetch, get_context and _request up to  await session.get(...)
BranchStart(i) ==
    /\ i \in DOMAIN branch
    /\ branch[i].pc = "new"
    /\ \A j \in 1..(i - 1) : branch[j].pc # "new"
    /\ LET s == GetSession(sess["ctx7"]) IN
       /\ sess' = [sess EXCEPT !["ctx7"] = s]
       /\ branch' = [branch EXCEPT ![i] =
                        [@ EXCEPT !.pc = "running",
                                  !.r = StartRequest("ctx7_request", s.cur)]]
    /\ UNCHANGED <<req, calls, callVars, ask, oh, mon>>

\* A sleep that blocks the event loop: no other task runs during it.
Resumable_BlockingSleep(branches, i) ==
    /\ branches[i].pc = "running"
    /\ \A j \in DOMAIN branches \ {i} :
          ~(branches[j].pc = "running" /\ branches[j].r.pc = "sleeping")

\* await session.get(...) and await asyncio.sleep(wait) suspend the task
\* that awaits them and nothing else: the event loop resumes task i when
\* its own awaitable is ready, whatever the other tasks wait for.
Resumable(branches, i) ==
    branches[i].pc = "running"

\* Branch i is suspended again, its _request at r.
BranchSuspends(i, r) ==
    /\ branch' = [branch EXCEPT ![i] = [@ EXCEPT !.r = r]]
    /\ UNCHANGED <<ask, retryVars, callVars, oh, mon>>

\* Branch i completes as b.
BranchCompletes(i, b) ==
    /\ branch' = [branch EXCEPT ![i] = b]
    /\ ask' = [ask EXCEPT !.finished = Append(ask.finished, i)]
    /\ UNCHANGED <<retryVars, callVars, oh, mon>>

\* session.get of branch i is answered (a closed session sends nothing).
BranchRespond(i, resp) ==
    /\ i \in DOMAIN branch
    /\ Resumable(branch, i)
    /\ branch[i].r.pc = "attempting"
    /\ branch[i].r.session \notin sess["ctx7"].closed
    /\ LET r == Ctx7OnResponse(branch[i].r, resp) IN
       CASE r.pc = "sleeping" -> BranchSuspends(i, r)
         [] r.outcome = "returned" -> BranchCompletes(i, AfterReturn(branch[i], r))
         [] OTHER -> BranchCompletes(i, AfterRaise(branch[i], r))

\* session.get of branch i raises.
BranchTransportFailure(i) ==
    /\ i \in DOMAIN branch
    /\ Resumable(branch, i)
    /\ branch[i].r.pc = "attempting"
    /\ BranchCompletes(i, AfterRaise(branch[i], OnTransportFailure(branch[i].r)))

\* asyncio.sleep of branch i returns.
BranchWake(i) ==
    /\ i \in DOMAIN branch
    /\ Resumable(branch, i)
    /\ branch[i].r.pc = "sleeping"
    /\ LET r == OnWake(branch[i].r) IN
       IF r.pc = "attempting" THEN BranchSuspends(i, r)
       ELSE BranchCompletes(i, AfterRaise(branch[i], r))

\* gather returns the results in the order of lib_ids; the handler flattens
\* them and replies.  An exception out of gather is handled by the outer
\* except clause of the handler.
Gathered(sends) ==
    /\ ask.pc = "gathering"
    /\ GatherReturns(branch)
    /\ IF \E i \in DOMAIN branch : branch[i].pc = "raised"
       THEN ask' = [ask EXCEPT !.pc = "done", !.outcome = "error"]
       ELSE LET results == GatherResults(branch, ask.finished)
                all_snippets == Flatten(results, 1) IN
            ask' = AfterGather(ask, all_snippets, sends)
    /\ UNCHANGED <<branch, retryVars, callVars, oh, mon>>

NextAsk ==
    \/ \E source \in SourceChoices : Ask(source)
    \/ \E i \in 1..Len(ALL_LIBRARY_IDS) : BranchStart(i)
    \/ \E i \in 1..Len(ALL_LIBRARY_IDS) :
          \E status \in {200, 429, 500} : \E p \in 1..Len(FanPayloads) :
              BranchRespond(i, FanResponse(status, p))
    \/ \E i \in 1..Len(ALL_LIBRARY_IDS) : BranchTransportFailure(i)
    \/ \E i \in 1..Len(ALL_LIBRARY_IDS) : BranchWake(i)
    \/ \E sends \in Sends : Gathered(sends)

SpecAsk == InitAsk /\ [][NextAsk]_vars

(***************************************************************************)
(* The Context7 client used by the concurrent branches while some other    *)
(* task calls its close().                                                 *)
(***************************************************************************)
CloseCtx7 ==
    /\ sess["ctx7"] # CloseSession(sess["ctx7"])
    /\ sess' = [sess EXCEPT !["ctx7"] = CloseSession(sess["ctx7"])]
    /\ UNCHANGED <<req, calls, callVars, askVars, oh, mon>>

NextClient == NextAsk \/ CloseCtx7

SpecClient == InitAsk /\ [][NextClient]_vars

(***************************************************************************)
(* The /openhands and /openhands_status commands.  A string of the         *)
(* environment or of a command option is "" when it is not set (an option  *)
(* left out is None, which  or  treats as "").                             *)
(***************************************************************************)
ApiKeys == {"", "key"}
Repositories == {"", "owner/repo"}
Commands == {"openhands", "openhands_status"}

OperationOf(cmd) ==
    IF cmd = "openhands" THEN "create_conversation"
    ELSE "get_conversation_status"

Dispatch_NoClientCheck(o, cmd, repository) ==
    IF cmd = "openhands"
       /\ (IF repository # "" THEN repository ELSE o.github_repo) = ""
    THEN "no_repository"
    ELSE "request"

\* The tests at the top of a handler:  if not openhands: ... return,  and
\* in /openhands  repo = repository or GITHUB_REPO;  if not repo: ... return.
Dispatch(o, cmd, repository) ==
    IF ~o.client THEN "not_configured"
    ELSE IF cmd = "openhands"
            /\ (IF repository # "" THEN repository ELSE o.github_repo) = ""
    THEN "no_repository"
    ELSE "request"

\* After the call of the client: the embed is built from result.get(...)
\* and sent; an exception of the client, a result that is no mapping or a
\* failing send of the embed ends in the except clause, which sends the
\* failure message (a failure of that send is swallowed).
AfterClientCall(o, r, is_mapping, sends) ==
    IF r.outcome = "returned" /\ is_mapping /\ sends = "ok"
    THEN [o EXCEPT !.pc = "done", !.outcome = "result", !.delivered = TRUE]
    ELSE [o EXCEPT !.pc = "done", !.outcome = "error",
                   !.delivered = sends # "all_sends_fail"]

InitCommands ==
    /\ NoCall
    /\ mon = IdleMonitor
    /\ req = IdleReq
    /\ sess = [c \in Clients |-> NoSession]
    /\ calls = 0
    /\ ask = IdleAsk
    /\ branch = <<>>
    /\ \E key \in ApiKeys : \E github_repo \in Repositories :
          oh = Configured(key, github_repo)

\* A handler from its invocation to its first suspension in the client, or
\* to its return when it replies at once.
InvokeCommand(cmd, repository, sends) ==
    /\ oh.pc \in {"idle", "done"}
    /\ oh.n < MaxCommands
    /\ LET path == Dispatch(oh, cmd, repository)
           o == [oh EXCEPT !.cmd = cmd, !.n = oh.n + 1] IN
       IF path = "request"
       THEN LET s == GetSession(sess["openhands"]) IN
            /\ sess' = [sess EXCEPT !["openhands"] = s]
            /\ req' = StartRequest(OperationOf(cmd), s.cur)
            /\ calls' = calls + 1
            /\ oh' = [o EXCEPT !.pc = "awaiting", !.outcome = "none",
                                !.delivered = FALSE]
       ELSE /\ oh' = [o EXCEPT !.pc = "done", !.outcome = path,
                                !.delivered = sends # "all_sends_fail"]
            /\ UNCHANGED <<req, sess, calls, mon>>
    /\ UNCHANGED <<callVars, askVars, mon>>

CommandReply(is_mapping, sends) ==
    /\ oh.pc = "awaiting"
    /\ req.pc = "done"
    /\ oh' = AfterClientCall(oh, req, is_mapping, sends)
    /\ UNCHANGED <<retryVars, callVars, askVars, mon>>

NextCommands ==
    \/ \E cmd \in Commands : \E repository \in Repositories :
          \E sends \in Sends : InvokeCommand(cmd, repository, sends)
    \/ \E resp \in Responses : Respond(resp)
    \/ TransportFailure
    \/ Wake
    \/ \E is_mapping \in BOOLEAN : \E sends \in Sends :
          CommandReply(is_mapping, sends)

SpecCommands == InitCommands /\ [][NextCommands]_vars

(***************************************************************************)
(* monitor_conversation: the polling loop of monitor_conversation.py over  *)
(* OpenHandsClient.get_conversation_status.                                *)
(***************************************************************************)
\* ['COMPLETED', 'FINISHED', 'STOPPED', 'ERROR', 'FAILED']
FINAL_STATES ==
    { Lit(<<"C", "O", "M", "P", "L", "E", "T", "E", "D">>),
      Lit(<<"F", "I", "N", "I", "S", "H", "E", "D">>),
      Lit(<<"S", "T", "O", "P", "P", "E", "D">>),
      Lit(<<"E", "R", "R", "O", "R">>),
      Lit(<<"F", "A", "I", "L", "E", "D">>) }

\* await asyncio.sleep(5)
CHECK_INTERVAL == 5

\* What the upstream may answer to GET /conversations/<id> with status 200.
StatusPayloads ==
    << JDict([status |-> JStr(Lit(<<"C", "O", "M", "P", "L", "E", "T", "E", "D">>))]),
       JDict([status |-> JStr(Lit(<<"F", "A", "I", "L", "E", "D">>)),
              error |-> JStr(Rep("e", 1))]),
       JDict([status |-> JStr(Lit(<<"R", "U", "N", "N", "I", "N", "G">>))]),
       JDict([status |-> JStr(Lit(<<"c", "o", "m", "p", "l", "e", "t", "e", "d">>))]),
       JDict([message |-> JStr(Rep("m", 1))]),
       JDict([status |-> JNull]),
       JList(<<>>) >>

MonitorResponse(status, p) ==
    [status |-> status, body |-> IF status = 200 THEN StatusPayloads[p] ELSE JNull]

\* status = status_data.get('status', 'unknown')
StatusOf(status_data) ==
    Get(status_data, "status", JStr(Lit(<<"u", "n", "k", "n", "o", "w", "n">>)))

\* status in ['COMPLETED', 'FINISHED', 'STOPPED', 'ERROR', 'FAILED']
IsFinal(status) == IsStr(status) /\ status.s \in FINAL_STATES

\* What the body of the inner try gives once the lookup, at r, is over:
\* an exception of the lookup or of status_data.get (a result that is no
\* mapping) is caught by  except Exception.
LookupGave(r) ==
    IF r.outcome # "returned" THEN "raised"
    ELSE IF r.result.t # "dict" THEN "raised"
    ELSE IF IsFinal(StatusOf(r.result)) THEN "final"
    ELSE "nonfinal"

\* The loop is left: the finally clause calls client.close().
MonitorExit(m, how) ==
    [m EXCEPT !.pc = "exited", !.exit = how, !.closes = m.closes + 1]

\* A loop that waits and goes on after a lookup that raised.
AfterLookup_ContinueOnError(m, r) ==
    LET gave == LookupGave(r)
        m1 == [m EXCEPT !.lookups = Append(m.lookups, gave)] IN
    IF gave = "final" THEN MonitorExit(m1, "final")
    ELSE [m1 EXCEPT !.pc = "waiting",
                    !.waits = Append(m.waits, CHECK_INTERVAL)]

\* The rest of the loop body after the lookup: break on a final status,
\* break in the except clause, or the wait before the next check.
AfterLookup(m, r) ==
    LET gave == LookupGave(r)
        m1 == [m EXCEPT !.lookups = Append(m.lookups, gave)] IN
    CASE gave = "final" -> MonitorExit(m1, "final")
      [] gave = "raised" -> MonitorExit(m1, "error")
      [] OTHER -> [m1 EXCEPT !.pc = "waiting",
                             !.waits = Append(m.waits, CHECK_INTERVAL)]

InitMonitor == NoRequests /\ NoCall

\* for i in range(max_checks)  with the loop variable at m.i: the next
\* lookup is started, up to its first HTTP request, or the else clause of
\* the loop and the finally clause run.
MonitorLoopHead(m) ==
    IF m.i < m.max_checks
    THEN LET s == GetSession(sess["openhands"]) IN
         /\ sess' = [sess EXCEPT !["openhands"] = s]
         /\ req' = StartRequest("get_conversation_status", s.cur)
         /\ calls' = calls + 1
         /\ mon' = [m EXCEPT !.pc = "lookup"]
    ELSE /\ mon' = MonitorExit(m, "max_checks")
         /\ sess' = [sess EXCEPT !["openhands"] = CloseSession(sess["openhands"])]
         /\ UNCHANGED <<req, calls>>

\* The lookup moves to r; when it is over the loop body goes on, and on
\* an exit the session is closed.
MonitorSettle(r) ==
    /\ req' = r
    /\ IF r.pc = "done"
       THEN LET m == AfterLookup(mon, r) IN
            /\ mon' = m
            /\ sess' = IF m.pc = "exited"
                       THEN [sess EXCEPT !["openhands"] = CloseSession(sess["openhands"])]
                       ELSE sess
       ELSE UNCHANGED <<mon, sess>>
    /\ UNCHANGED <<calls, callVars, askVars, oh>>

MonitorCall(max_checks) ==
    /\ mon.pc = "idle"
    /\ MonitorLoopHead([IdleMonitor EXCEPT !.max_checks = max_checks])
    /\ UNCHANGED <<callVars, askVars, oh>>

MonitorRespond(resp) ==
    /\ mon.pc = "lookup"
    /\ req.pc = "attempting"
    /\ MonitorSettle(OnResponse(req, resp))

MonitorTransportFailure ==
    /\ mon.pc = "lookup"
    /\ req.pc = "attempting"
    /\ MonitorSettle(OnTransportFailure(req))

MonitorBackoffOver ==
    /\ mon.pc = "lookup"
    /\ req.pc = "sleeping"
    /\ MonitorSettle(OnWake(req))

\* asyncio.sleep(5) returns: the loop variable advances.
MonitorWake ==
    /\ mon.pc = "waiting"
    /\ MonitorLoopHead([mon EXCEPT !.i = mon.i + 1])
    /\ UNCHANGED <<callVars, askVars, oh>>

NextMonitor ==
    \/ \E max_checks \in 0..MaxChecks : MonitorCall(max_checks)
    \/ \E status \in {200, 429, 500} : \E p \in 1..Len(StatusPayloads) :
          MonitorRespond(MonitorResponse(status, p))
    \/ MonitorTransportFailure
    \/ MonitorBackoffOver
    \/ MonitorWake

SpecMonitor == InitMonitor /\ [][NextMonitor]_vars

(***************************************************************************)
(* Claims about the retry loop (checked under SpecRetry).                  *)
(***************************************************************************)
Answered(r) == Len(r.responses)
All429(r, k) == \A i \in 1..k : r.responses[i].status = 429
WaitsUpTo(k) == [i \in 1..k |-> 2 ^ (i - 1)]

\* C1: when every attempt of a logical request is answered 429, the client
\* issues exactly 3 HTTP requests and then fails with the rate-limit error:
\* it never returns a body, never issues a 4th request, and never gives up
\* on the rate limit before the 3rd answer.  For all three operations.
C1_ExactlyThreeThenExhausted ==
    /\ req.requests <= 3
    /\ (Answered(req) = 3 /\ All429(req, 3)) =>
           /\ req.requests = 3
           /\ req.result = "none"
           /\ req.outcome \in {"none", "rate_limit_exhausted"}
           /\ (req.pc = "done" <=> req.outcome = "rate_limit_exhausted")
           /\ req.pc \in {"sleeping", "done"}
    /\ req.outcome = "rate_limit_exhausted" =>
           /\ Answered(req) = 3 /\ All429(req, 3)
           /\ req.requests = 3
           /\ req.pc = "done"

C1_Witness ==
    /\ req.op = "get_conversation_status"
    /\ req.pc = "done"
    /\ req.outcome = "rate_limit_exhausted"
    /\ req.requests = 3
    /\ All429(req, Answered(req))

C3_HttpErrorImmediate ==
    (/\ Answered(req) >= 1
     /\ req.responses[Answered(req)].status >= 400
     /\ req.responses[Answered(req)].status # 429) =>
        /\ req.pc = "done"
        /\ req.outcome = "http_error"
        /\ req.err.status = req.responses[Answered(req)].status
        /\ req.requests = Answered(req)
        /\ Len(req.waits) = Answered(req) - 1
        /\ req.result = "none"

C3_Witness ==
    /\ req.op = "ctx7_request"
    /\ Answered(req) = 3
    /\ All429(req, 2)
    /\ req.responses[3].status = 400
    /\ req.outcome = "http_error"
    /\ req.requests = 3
    /\ req.waits = <<1, 2>>

\* C4: a transport failure on any attempt ends the request at once with
\* that failure: no wait and no HTTP request follows it, even after 429
\* answers and with attempts left.
C4_TransportFailureImmediate ==
    req.failures > 0 =>
        /\ req.failures = 1
        /\ req.pc = "done"
        /\ req.outcome = "transport_error"
        /\ req.requests = Answered(req) + 1
        /\ Len(req.waits) = Answered(req)
        /\ All429(req, Answered(req))
        /\ req.result = "none"

C4_Witness ==
    /\ req.op = "ctx7_request"
    /\ req.failures = 1
    /\ Answered(req) = 1
    /\ req.attempt = 1
    /\ req.requests = 2
    /\ req.outcome = "transport_error"

\* C19: in both clients, the error raised for an answer with a status >= 400
\* other than 429 carries the status and the body of that answer.
C19_ErrorCarriesStatusAndBody ==
    req.outcome = "http_error" =>
        /\ req.err.status = req.responses[Answered(req)].status
        /\ req.err.body = req.responses[Answered(req)].body

(***************************************************************************)
(* Claims about build_embed (checked under SpecRender).                    *)
(***************************************************************************)
RECURSIVE SumValueLen(_, _)
SumValueLen(fields, i) ==
    IF i > Len(fields) THEN 0
    ELSE SLen(fields[i].value) + SumValueLen(fields, i + 1)

\* C5: for every input, build_embed emits at most 6 blocks, and the lengths
\* of the emitted values sum to at most 5500.
C5_CountAndBudget ==
    fpc = "done" =>
        /\ Len(ret[1]) <= 6
        /\ SumValueLen(ret[1], 1) <= 5500

\* Seven snippets with seven fingerprints, each value cut to 1023
\* characters: the sixth would bring the total to 6138.
C5_Witness ==
    /\ fpc = "done"
    /\ Len(arg) = 7
    /\ Len(dedup_snippets(arg)) = 7
    /\ Len(ret[1]) = 5
    /\ SumValueLen(ret[1], 1) = 5115

\* C6: every emitted block has a name of at most 256 characters and a value
\* of at most 1024 characters, for every snippet, sources close to or
\* longer than the field limit included.
C6_FieldLimits ==
    fpc = "done" =>
        \A i \in 1..Len(ret[1]) :
            /\ SLen(ret[1][i].name) <= 256
            /\ SLen(ret[1][i].value) <= 1024

\* The elements of X at the positions of K, in the order of X.
PickInOrder(X, K) ==
    LET F[i \in 0..Len(X)] ==
            IF i = 0 THEN <<>>
            ELSE IF i \in K THEN Append(F[i - 1], X[i]) ELSE F[i - 1]
    IN F[Len(X)]

\* The first 6 deduplicated snippets.
Candidates ==
    LET deduped == dedup_snippets(arg) IN
    SubSeq(deduped, 1, IF Len(deduped) < 6 THEN Len(deduped) ELSE 6)

\* The value a snippet would get: its content safely truncated, then its
\* source link.
ValueOf(snip) ==
    LET link == SourceLink(AsStr(Get(snip, "source", JStr(<<>>)))) IN
    SCat(safe_truncate(JStr(AsStr(Get(snip, "content", JStr(<<>>)))),
                       1024 - SLen(link) - 1),
         link)

ValuesOf(snippets) == [i \in 1..Len(snippets) |-> ValueOf(snippets[i])]

IsBlank(text) == SStrip(text) = <<>>

\* RunningTotal(V)[i]: the total length of the values that are not blank
\* among the first i of V.
RunningTotal(V) ==
    LET T[i \in 0..Len(V)] ==
            IF i = 0 THEN 0
            ELSE T[i - 1] + (IF IsBlank(V[i]) THEN 0 ELSE SLen(V[i]))
    IN T

\* The first position of V whose value would push the total above 5500
\* (one past the last position if there is none).
StopAt(V) ==
    LET T == RunningTotal(V)
        over == {i \in 1..Len(V) :
                    ~IsBlank(V[i]) /\ T[i - 1] + SLen(V[i]) > 5500} IN
    IF over = {} THEN Len(V) + 1
    ELSE CHOOSE i \in over : \A j \in over : i <= j

\* C20: the emitted blocks are, in order, the values that are not blank of
\* the candidates before the first one whose value would push the running
\* total above 5500: that one and every later one are dropped, also a later
\* one that would fit; a blank value is skipped, the loop goes on, and the
\* total is not changed by it.
C20_PrefixUntilBudget ==
    fpc = "done" =>
        LET V == ValuesOf(Candidates)
            stop == StopAt(V) IN
        [i \in 1..Len(ret[1]) |-> ret[1][i].value]
            = PickInOrder(V, {i \in 1..(stop - 1) : ~IsBlank(V[i])})

\* A blank value is skipped and a block emitted after it; then a value goes
\* over the budget, and a later one that would have fit is dropped too.
C20_Witness ==
    /\ fpc = "done"
    /\ LET V == ValuesOf(Candidates)
           stop == StopAt(V)
           T == RunningTotal(V) IN
       /\ stop < Len(V)
       /\ \E b \in 1..(stop - 1) :
             /\ IsBlank(V[b])
             /\ \E k \in (b + 1)..(stop - 1) : ~IsBlank(V[k])
       /\ \E j \in (stop + 1)..Len(V) :
             ~IsBlank(V[j]) /\ T[stop - 1] + SLen(V[j]) <= 5500
       /\ Len(ret[1]) = Cardinality({i \in 1..(stop - 1) : ~IsBlank(V[i])})
       /\ Len(ret[1]) >= 2

(***************************************************************************)
(* Claims about _safe_truncate (checked under SpecTruncate).               *)
(***************************************************************************)
Even(n) == n % 2 = 0

\* C7, as claimed: for every content and every limit, those that fit
\* included, the text produced holds an even number of fence markers.
C7_AlwaysEvenFences ==
    fpc = "done" => Even(SCountFence(ret[1]))

\* C7, amended: for every content longer than the limit the text produced
\* holds an even number of fence markers; a content that fits within the
\* limit is returned as it is, with the markers it came with.
C7_EvenFencesWhenCut ==
    fpc = "done" =>
        /\ SLen(Str(arg.text)) > arg.limit => Even(SCountFence(ret[1]))
        /\ SLen(Str(arg.text)) <= arg.limit => ret[1] = Str(arg.text)

\* A cut that falls inside an open fence, with text left before the fence.
C7_Witness ==
    /\ fpc = "done"
    /\ SLen(Str(arg.text)) > arg.limit
    /\ ~Even(SCountFence(STake(Str(arg.text), arg.limit - 1)))
    /\ SLen(ret[1]) >= 2
    /\ Even(SCountFence(ret[1]))

(***************************************************************************)
(* Claims about _dedup_snippets (checked under SpecDedup).                 *)
(***************************************************************************)
\* C8: deduplication is idempotent: applied to its own result, it returns
\* that result.
C8_DedupIdempotent ==
    fpc = "twice" => ret[2] = ret[1]

C8_Witness ==
    /\ fpc = "twice"
    /\ Len(arg) = 3
    /\ Len(ret[1]) = 2
    /\ ret[2] = ret[1]
    /\ \E i \in 1..3 : HasKey(arg[i], "content") /\ arg[i].d.content.t = "null"

\* The fingerprint as the claim words it: the first 200 characters of the
\* content, trimmed and lowercased (a snippet without content has "").
HasTextContent(snip) == ~HasKey(snip, "content") \/ snip.d.content.t = "str"
ClaimedFingerprint(snip) ==
    LET text == IF HasKey(snip, "content") THEN snip.d.content.s ELSE <<>> IN
    SLower(SStrip(STake(text, 200)))

FirstOfFingerprint(X) ==
    {i \in 1..Len(X) :
        /\ HasTextContent(X[i])
        /\ \A j \in 1..(i - 1) :
              HasTextContent(X[j]) =>
                  ClaimedFingerprint(X[j]) # ClaimedFingerprint(X[i])}

\* C9: the result is the subsequence of the input, in the input's order,
\* of the first snippet of each fingerprint; later snippets of a
\* fingerprint and snippets whose content is not a string are dropped.
C9_FirstOfEachFingerprint ==
    fpc \in {"once", "twice"} =>
        ret[1] = PickInOrder(arg, FirstOfFingerprint(arg))

\* An input of three snippets: the second repeats the first's fingerprint
\* in another case, the third holds a content that is not a string.
C9_Witness ==
    /\ fpc = "once"
    /\ Len(arg) = 3
    /\ HasKey(arg[1], "content") /\ arg[1].d.content.t = "str"
    /\ HasKey(arg[2], "content") /\ arg[2].d.content.t = "str"
    /\ arg[1].d.content.s # arg[2].d.content.s
    /\ ClaimedFingerprint(arg[1]) = ClaimedFingerprint(arg[2])
    /\ HasKey(arg[3], "content") /\ arg[3].d.content.t = "num"
    /\ ret[1] = <<arg[1]>>

(***************************************************************************)
(* Claims about _normalize_snippets (checked under SpecNormalize).         *)
(***************************************************************************)
\* C10: _normalize_snippets never raises: for every JSON value it returns
\* a sequence.
C10_NeverRaises ==
    fpc = "done" => (ret[1].ok /\ ret[1].v.t = "list")

\* The shapes the claim calls recognized: a list of records that each hold
\* a codeTitle, a mapping with a codeSnippets list, a mapping with a list
\* under one of ListKeys, a mapping with a direct content or title.
RecognizedShape(data) ==
    \/ /\ data.t = "list"
       /\ data.xs # <<>>
       /\ \A i \in 1..Len(data.xs) :
             data.xs[i].t = "dict" /\ HasKey(data.xs[i], "codeTitle")
    \/ /\ data.t = "dict"
       /\ \/ HasKey(data, "codeSnippets") /\ data.d["codeSnippets"].t = "list"
          \/ FirstListKey(data, 1) # 0
          \/ HasKey(data, "content")
          \/ HasKey(data, "title")

HasTitleAndContent(x) ==
    /\ x.t = "dict"
    /\ HasKey(x, "title") /\ Truthy(x.d["title"])
    /\ HasKey(x, "content") /\ IsStr(x.d["content"])

\* C11: for every payload of a recognized shape, every element of the
\* sequence returned has a non-empty title and a content that is a string.
C11_TitleAndContent ==
    (fpc = "done" /\ RecognizedShape(arg) /\ ret[1].ok) =>
        \A i \in 1..Len(ret[1].v.xs) : HasTitleAndContent(ret[1].v.xs[i])

(***************************************************************************)
(* Claims about _convert_code_snippet (checked under SpecConvert).         *)
(***************************************************************************)
NonEmptyText(s, key) ==
    HasKey(s, key) /\ IsStr(s.d[key]) /\ s.d[key].s # <<>>

ClaimedTitle(s) ==
    IF NonEmptyText(s, "codeTitle") THEN s.d["codeTitle"].s
    ELSE IF NonEmptyText(s, "pageTitle") THEN s.d["pageTitle"].s
    ELSE Lit(<<"U", "n", "t", "i", "t", "l", "e", "d">>)

ClaimedSource(s) ==
    IF NonEmptyText(s, "codeId") THEN s.d["codeId"].s ELSE <<>>

ClaimedBlocks(s) ==
    IF HasKey(s, "codeList") /\ s.d["codeList"].t = "list"
    THEN s.d["codeList"].xs ELSE <<>>

ClaimedFence(block) ==
    SCat(SCat(SCat(Rep(BACKTICK, 3),
                   IF HasKey(block, "language") THEN block.d["language"].s ELSE <<>>),
              SCat(Lit(<<"\n">>), block.d["code"].s)),
         SCat(Lit(<<"\n">>), Rep(BACKTICK, 3)))

ClaimedParts(s) ==
    (IF NonEmptyText(s, "codeDescription")
     THEN <<s.d["codeDescription"].s>> ELSE <<>>)
    \o [i \in 1..Len(ClaimedBlocks(s)) |-> ClaimedFence(ClaimedBlocks(s)[i])]

RECURSIVE JoinedByBlankLines(_)
JoinedByBlankLines(parts) ==
    IF Len(parts) = 1 THEN parts[1]
    ELSE SCat(parts[1], SCat(Lit(<<"\n", "\n">>), JoinedByBlankLines(Tail(parts))))

ClaimedContent(s) ==
    IF ClaimedParts(s) = <<>>
    THEN Lit(<<"(", "n", "o", " ", "c", "o", "n", "t", "e", "n", "t", ")">>)
    ELSE JoinedByBlankLines(ClaimedParts(s))

\* C17: the conversion of a code-snippet record yields title = codeTitle if
\* non-empty, else pageTitle if non-empty, else "Untitled"; source = codeId,
\* or the empty string when codeId is absent, empty or null; content = the
\* description, if present, followed by each code block in a fence tagged
\* with its language, in order, joined by blank lines, or "(no content)"
\* when there is neither.
C17_ConversionAsDescribed ==
    fpc = "done" =>
        /\ ret[1].ok
        /\ ret[1].v = Snippet(JStr(ClaimedTitle(arg)), JStr(ClaimedContent(arg)),
                              JStr(ClaimedSource(arg)))

(***************************************************************************)
(* Claims about the fan-out of /ask (checked under SpecAsk).               *)
(***************************************************************************)
RequestFailed(r) ==
    r.outcome \in {"rate_limit_exhausted", "http_error", "transport_error"}

\* A snippet of the upstream with the tag of its source.
Tagged(x, lib_id) ==
    JDict([k \in DOMAIN x.d \cup {"_source_lib"} |->
              IF k = "_source_lib" THEN JStr(lib_id) ELSE x.d[k]])

\* What the source of branch b contributes: the snippets its lookup
\* returned, in the order of the upstream, each tagged with the source;
\* nothing when the lookup failed.
Contribution(b) ==
    IF b.r.outcome # "returned" THEN <<>>
    ELSE LET got == normalize_snippets(b.r.result) IN
         IF got.ok /\ \A k \in 1..Len(got.v.xs) : got.v.xs[k].t = "dict"
         THEN [k \in 1..Len(got.v.xs) |-> Tagged(got.v.xs[k], b.lib_id)]
         ELSE <<>>

\* C12: when the lookup of one source fails (rate limit exhausted, HTTP
\* error, transport error), its branch still completes, with an empty
\* result, and when the handler has gathered, every snippet returned by
\* every other source is in the combined result.
C12_FailureIsolated ==
    /\ \A i \in DOMAIN branch :
          RequestFailed(branch[i].r) =>
              /\ branch[i].pc = "done"
              /\ branch[i].snippets = <<>>
    /\ ask.pc = "done" =>
          \A j \in DOMAIN branch :
              \A k \in 1..Len(Contribution(branch[j])) :
                  \E m \in 1..Len(ask.all_snippets) :
                      ask.all_snippets[m] = Contribution(branch[j])[k]

\* The first source ran out of retries, the second returned two snippets:
\* the handler replied with both.
C12_Witness ==
    /\ ask.pc = "done"
    /\ Len(branch) = 2
    /\ branch[1].r.outcome = "rate_limit_exhausted"
    /\ branch[1].failed
    /\ Len(Contribution(branch[2])) = 2
    /\ Len(ask.all_snippets) = 2
    /\ ask.outcome = "embed"

\* C13: the combined result is the concatenation of the results of the
\* sources in the order of the list of source identifiers, each in the
\* order of the upstream, in whatever order the lookups completed.
C13_SourceOrder ==
    (ask.pc = "done" /\ ask.outcome # "no_results") =>
        /\ ask.all_snippets
             = Flatten([i \in 1..Len(branch) |-> Contribution(branch[i])], 1)
        /\ \A i \in 1..Len(branch) : branch[i].lib_id = ask.lib_ids[i]

\* The first-listed source backed off twice and finished last; both
\* sources returned snippets.
C13_Witness ==
    /\ ask.pc = "done"
    /\ ask.finished = <<2, 1>>
    /\ branch[1].r.waits = <<1, 2>>
    /\ Len(Contribution(branch[1])) = 2
    /\ Len(Contribution(branch[2])) = 1
    /\ Len(ask.all_snippets) = 3
    /\ ask.all_snippets[1].d["_source_lib"].s = ALL_LIBRARY_IDS[1]
    /\ ask.all_snippets[3].d["_source_lib"].s = ALL_LIBRARY_IDS[2]

\* C18: when the fan-out yields no snippet (every source returned an empty
\* or unrecognized payload, or failed), the handler ends in the no-results
\* outcome, never in the error outcome, and the renderer is not invoked.
C18_NoResultsOutcome ==
    (ask.pc = "done" /\ \A i \in DOMAIN branch : Contribution(branch[i]) = <<>>) =>
        /\ ask.outcome = "no_results"
        /\ ~ask.rendered
        /\ ask.fields = <<>>

\* One source answered {"foo": 123}, the other failed.
C18_Witness ==
    /\ ask.pc = "done"
    /\ Len(branch) = 2
    /\ branch[1].r.outcome = "returned"
    /\ branch[1].r.result = JDict([foo |-> JNum(123)])
    /\ ~branch[1].failed
    /\ RequestFailed(branch[2].r)
    /\ ask.outcome = "no_results"
    /\ ~ask.rendered

(***************************************************************************)
(* Claims about the session of a client used by concurrent requests        *)
(* (checked under SpecClient).                                             *)
(***************************************************************************)
InFlight(b) == b.pc = "running"

OpenSessions(s) == (1..s.made) \ s.closed

\* C14: under every interleaving of the concurrent requests of one client,
\* a session is created only when there is none or the existing one is
\* closed, so that there are never two open sessions of the client, and
\* every request in flight that holds an open session holds the same one,
\* the client's current session.
C14_OneSessionPerClient ==
    /\ Cardinality(OpenSessions(sess["ctx7"])) <= 1
    /\ \A i \in DOMAIN branch :
          (InFlight(branch[i]) /\ branch[i].r.session \in OpenSessions(sess["ctx7"])) =>
              branch[i].r.session = sess["ctx7"].cur

\* Two branches in flight over one session, the second session of the
\* client: the first was closed before this invocation.
C14_Witness ==
    /\ Len(branch) = 2
    /\ InFlight(branch[1]) /\ InFlight(branch[2])
    /\ branch[1].r.pc = "sleeping"
    /\ branch[2].r.pc = "attempting"
    /\ sess["ctx7"].made = 2
    /\ sess["ctx7"].closed = {1}
    /\ branch[1].r.session = 2
    /\ branch[2].r.session = 2

\* C15: every attempt of a request, a retry after a backoff wait included,
\* is sent over a session that is open when it is sent: after a close()
\* during the wait, the session is recreated before the next attempt.
C15_AttemptsOverOpenSession ==
    [][\A i \in DOMAIN branch \cap DOMAIN branch' :
          branch'[i].r.requests > branch[i].r.requests =>
              branch'[i].r.session \notin sess'["ctx7"].closed]_vars


RECURSIVE TotalWait(_, _)
TotalWait(waits, i) ==
    IF i > Len(waits) THEN 0 ELSE waits[i] + TotalWait(waits, i + 1)

\* C24: when all three attempts of a logical request are answered 429, the
\* client waits after each of them, the last one included: 1, 2 and 4
\* seconds, 7 in total.  Only after the third wait does it fail with the
\* rate-limit error, and no HTTP request follows that wait.
C24_WaitAfterLastAttempt ==
    /\ (Answered(req) = MAX_RETRIES /\ All429(req, MAX_RETRIES)) =>
           /\ req.waits = <<1, 2, 4>>
           /\ TotalWait(req.waits, 1) = 7
           /\ req.requests = MAX_RETRIES
           /\ \/ req.pc = "sleeping" /\ req.outcome = "none"
              \/ req.pc = "done" /\ req.outcome = "rate_limit_exhausted"
    /\ req.outcome = "rate_limit_exhausted" =>
           /\ Answered(req) = MAX_RETRIES /\ All429(req, MAX_RETRIES)
           /\ Len(req.waits) = MAX_RETRIES

\* The status lookup of OpenHands failed on the rate limit after its third
\* wait.
C24_Witness ==
    /\ req.op = "get_conversation_status"
    /\ req.pc = "done"
    /\ req.outcome = "rate_limit_exhausted"
    /\ req.waits = <<1, 2, 4>>
    /\ req.requests = 3

\* How a logical request that is over ended, read off its answers.
EndedIn(r) ==
    LET k == Len(r.responses) IN
    { o \in {"returned", "http_error", "transport_error", "rate_limit_exhausted"} :
        CASE o = "returned" ->
                 /\ k >= 1 /\ r.failures = 0
                 /\ r.responses[k].status < 400
                 /\ r.result = r.responses[k].body
                 /\ \A i \in 1..(k - 1) : r.responses[i].status = 429
          [] o = "http_error" ->
                 /\ k >= 1 /\ r.failures = 0
                 /\ r.responses[k].status >= 400 /\ r.responses[k].status # 429
          [] o = "transport_error" -> r.failures = 1
          [] OTHER ->
                 /\ k = MAX_RETRIES /\ r.failures = 0
                 /\ \A i \in 1..k : r.responses[i].status = 429 }

C16_UnconfiguredNeverRequests ==
    oh.key = "" =>
        /\ ~oh.client
        /\ req = IdleReq
        /\ sess["openhands"] = NoSession
        /\ calls = 0
        /\ oh.pc \in {"idle", "done"}
        /\ oh.n > 0 => oh.outcome = "not_configured"

C16_Witness ==
    /\ oh.key = ""
    /\ oh.github_repo # ""
    /\ oh.n = MaxCommands
    /\ oh.cmd = "openhands"
    /\ oh.outcome = "not_configured"
    /\ oh.delivered


(***************************************************************************)
(* Claims about the concurrency of the fan-out (checked under SpecAsk).    *)
(***************************************************************************)
Merged == ask.pc = "done" /\ ask.n > 0

\* C21: the handler of /ask goes on to merging only after every branch of
\* the fan-out has completed or failed, and the step in which one branch
\* fails leaves every sibling as it is: a sibling in flight stays in
\* flight, a sibling in its backoff wait stays in its wait.
C21_MergeAfterAllNoCancel ==
    /\ [](Merged => \A i \in DOMAIN branch : branch[i].pc = "done")
    /\ [][\A i \in DOMAIN branch \cap DOMAIN branch' :
             (~branch[i].failed /\ branch'[i].failed) =>
                 \A j \in (DOMAIN branch \cap DOMAIN branch') \ {i} :
                     branch'[j] = branch[j]]_vars

\* The first branch has failed while the second is in its backoff wait:
\* the handler is still suspended in gather.
C21_Witness ==
    /\ Len(branch) = 2
    /\ branch[1].pc = "done"
    /\ branch[1].failed
    /\ branch[2].pc = "running"
    /\ branch[2].r.pc = "sleeping"
    /\ ask.pc = "gathering"


\* What branch i can do next on its own.
CanProceed(i) ==
    CASE branch[i].pc = "new" -> ENABLED BranchStart(i)
      [] branch[i].pc = "running" /\ branch[i].r.pc = "attempting" ->
             /\ ENABLED BranchRespond(i, FanResponse(200, 2))
             /\ ENABLED BranchTransportFailure(i)
      [] branch[i].pc = "running" /\ branch[i].r.pc = "sleeping" ->
             ENABLED BranchWake(i)
      [] OTHER -> TRUE

\* C22: while one branch is in its backoff wait after a 429, every other
\* branch can take its next step (issue its request, receive its answer,
\* complete): the progress of no branch waits for the end of the backoff
\* of another.
C22_BackoffBlocksNoSibling ==
    \A j \in DOMAIN branch :
        (branch[j].pc = "running" /\ branch[j].r.pc = "sleeping") =>
            \A i \in DOMAIN branch \ {j} : CanProceed(i)

\* The first branch is in its second backoff wait; the second branch has
\* issued its requests and completed with two snippets meanwhile.
C22_Witness ==
    /\ Len(branch) = 2
    /\ branch[1].pc = "running"
    /\ branch[1].r.pc = "sleeping"
    /\ branch[1].r.waits = <<1, 2>>
    /\ branch[2].pc = "done"
    /\ ~branch[2].failed
    /\ Len(branch[2].snippets) = 2
    /\ ask.finished = <<2>>
    /\ ask.pc = "gathering"


(***************************************************************************)
(* What /ask renders as a function of what the upstream answered to each   *)
(* source, with no reference to the order in which the branches ran.       *)
(***************************************************************************)
\* The snippets of the source of branch b, from the answers it got alone:
\* those of the body of its last answer when that answer is below 400 and
\* every element of the normalized body is a mapping, none otherwise.
FromAnswers(b) ==
    LET n == Len(b.r.responses) IN
    IF b.r.failures > 0 \/ n = 0 THEN <<>>
    ELSE IF b.r.responses[n].status >= 400 THEN <<>>
    ELSE LET got == normalize_snippets(b.r.responses[n].body) IN
         IF got.ok /\ \A k \in 1..Len(got.v.xs) : got.v.xs[k].t = "dict"
         THEN [k \in 1..Len(got.v.xs) |-> Tagged(got.v.xs[k], b.lib_id)]
         ELSE <<>>

InListedOrder == Flatten([i \in 1..Len(branch) |-> FromAnswers(branch[i])], 1)

FingerprintOf(snip) ==
    SLower(SStrip(STake(Get(snip, "content", JStr(<<>>)).s, FINGERPRINT_LEN)))

\* Snippet k of xs has text content and no snippet before it has its
\* fingerprint.
FirstOfItsFingerprint(xs, k) ==
    /\ IsStr(Get(xs[k], "content", JStr(<<>>)))
    /\ \A m \in 1..(k - 1) :
          IsStr(Get(xs[m], "content", JStr(<<>>))) =>
              FingerprintOf(xs[m]) # FingerprintOf(xs[k])

\* C25: for given answers of the upstream to each source, the blocks /ask
\* renders are the same in every interleaving and completion order of the
\* branches: they are the rendering of the sources' snippets taken in the
\* listed order of the sources, and of two snippets with one fingerprint
\* from different sources the one of the earlier-listed source is rendered.
C25_RenderingIndependentOfOrder ==
    (Merged /\ ask.rendered) =>
        LET xs == InListedOrder IN
        /\ ask.all_snippets = xs
        /\ ask.fields = build_embed(xs)
        /\ \A f \in 1..Len(ask.fields) :
              \E k \in 1..Len(xs) :
                  /\ FirstOfItsFingerprint(xs, k)
                  /\ <<ask.fields[f]>> = EmbedLoop(<<xs[k]>>, 1, 0, <<>>)

\* The second source completed first; both returned a snippet of one
\* fingerprint under different titles: the block rendered is the one of
\* the first-listed source.
C25_Witness ==
    /\ Merged /\ ask.rendered
    /\ ask.finished = <<2, 1>>
    /\ Len(ask.all_snippets) = 3
    /\ ask.all_snippets[1].d["title"].s = Rep("u", 1)
    /\ ask.all_snippets[2].d["title"].s = Rep("t", 1)
    /\ FingerprintOf(ask.all_snippets[1]) = FingerprintOf(ask.all_snippets[2])
    /\ ask.all_snippets[1].d["content"] # ask.all_snippets[2].d["content"]
    /\ Len(ask.fields) = 2
    /\ ask.fields[1].name = Rep("u", 1)
    /\ ask.fields[2].name = Rep("t", 2)


(***************************************************************************)
(* Claims about the tagging of the snippets (checked under SpecAsk).       *)
(***************************************************************************)
\* The lookup of branch b returned and the normalized result holds an
\* element that is no mapping, at position k.
NonMappingAt(b, k) ==
    /\ b.r.outcome = "returned"
    /\ LET got == normalize_snippets(b.r.result) IN
       /\ got.ok
       /\ got.v.t = "list"
       /\ k \in 1..Len(got.v.xs)
       /\ got.v.xs[k].t # "dict"

\* C27: when the normalized result of a source holds an element that is no
\* mapping, the tagging fails in the branch of that source and the source
\* contributes no snippet at all, the mappings before that element
\* included; the snippets of the other sources are still in the combined
\* result, and every snippet of the combined result is a mapping that
\* carries the identifier of the source whose lookup returned it.
C27_UntaggableSourceDropped ==
    /\ \A i \in DOMAIN branch :
          (\E k \in 1..MaxSnippets : NonMappingAt(branch[i], k)) =>
              /\ branch[i].pc = "done"
              /\ branch[i].failed
              /\ branch[i].snippets = <<>>
    /\ Merged =>
          /\ \A j \in DOMAIN branch :
                (~branch[j].failed /\ branch[j].r.outcome = "returned") =>
                    LET got == normalize_snippets(branch[j].r.result) IN
                    (got.ok /\ got.v.t = "list") =>
                        \A k \in 1..Len(got.v.xs) :
                            \E m \in 1..Len(ask.all_snippets) :
                                ask.all_snippets[m] = Tagged(got.v.xs[k], branch[j].lib_id)
          /\ \A m \in 1..Len(ask.all_snippets) :
                /\ ask.all_snippets[m].t = "dict"
                /\ HasKey(ask.all_snippets[m], "_source_lib")
                /\ \E j \in DOMAIN branch :
                      /\ ask.all_snippets[m].d["_source_lib"] = JStr(branch[j].lib_id)
                      /\ \E k \in 1..Len(branch[j].snippets) :
                            branch[j].snippets[k] = ask.all_snippets[m]

\* The first source answered a mapping and the number 5: it contributes
\* nothing; the two snippets of the second source are returned, tagged with
\* the second identifier.
C27_Witness ==
    /\ Merged
    /\ Len(branch) = 2
    /\ NonMappingAt(branch[1], 2)
    /\ ~NonMappingAt(branch[1], 1)
    /\ branch[1].snippets = <<>>
    /\ Len(ask.all_snippets) = 2
    /\ \A m \in 1..2 :
          ask.all_snippets[m].d["_source_lib"] = JStr(ALL_LIBRARY_IDS[2])


(***************************************************************************)
(* Claims about monitor_conversation (checked under SpecMonitor).          *)
(***************************************************************************)
NonFinalLookups == {k \in 1..Len(mon.lookups) : mon.lookups[k] = "nonfinal"}

SessionClosed(s) == s.cur = 0 \/ s.cur \in s.closed

\* At most max_checks lookups; a lookup with a final status or one that
\* raised is the last one; a wait is 5 seconds and follows a successful
\* lookup with a status that is not final; every exit closes the client.
MonitorStopsAndCloses ==
    /\ Len(mon.lookups) <= mon.max_checks
    /\ \A k \in 1..(Len(mon.lookups) - 1) : mon.lookups[k] = "nonfinal"
    /\ \A k \in 1..Len(mon.waits) :
          mon.waits[k] = 5 /\ k <= Len(mon.lookups) /\ mon.lookups[k] = "nonfinal"
    /\ (Len(mon.lookups) > 0 /\ mon.lookups[Len(mon.lookups)] = "final") =>
          mon.pc = "exited" /\ mon.exit = "final"
    /\ (Len(mon.lookups) > 0 /\ mon.lookups[Len(mon.lookups)] = "raised") =>
          mon.pc = "exited" /\ mon.exit = "error"
    /\ mon.exit = "max_checks" <=>
          /\ mon.pc = "exited"
          /\ Len(mon.lookups) = mon.max_checks
          /\ Cardinality(NonFinalLookups) = mon.max_checks
    /\ mon.pc = "exited" =>
          /\ mon.exit \in {"final", "error", "max_checks"}
          /\ mon.closes = 1
          /\ SessionClosed(sess["openhands"])
          /\ req.pc \in {"idle", "done"}
    /\ mon.pc # "exited" => mon.closes = 0 /\ mon.exit = "none"

====
